---- MODULE Spec2Model ----
(***************************************************************************)
(* A model of libchafa-rs, the Rust binding of the Chafa terminal-graphics *)
(* library.  Every Rust wrapper type (Config, Canvas, Frame, Image,        *)
(* Placement, Db, SymbolMap) is a struct holding one raw pointer to a      *)
(* reference-counted native object, with a Drop that unrefs it.  The model *)
(* keeps the native heap (one record per native object, counting the       *)
(* references acquired and released) beside the Rust handles that point    *)
(* into it, and has one action per wrapper method: the native call it      *)
(* makes followed by the drops Rust performs when the method returns.      *)
(***************************************************************************)
EXTENDS Integers, Sequences, FiniteSets, TLC

VARIABLES
    cfgObj,      \* native ChafaCanvasConfig objects, by address
    hCfg,        \* number of live Rust Config values whose raw is that address
    nsets,       \* number of setter calls made so far
    npeeks,      \* number of Canvas::config calls made so far
    canvasObj,   \* native ChafaCanvas objects, by address
    snap,        \* history: the configuration values a canvas was created with, and from which Config
    uaf,         \* an operation has touched a native object after its release
    frameObj,    \* native ChafaFrame objects, by address
    hFrame,      \* number of live Rust Frame values whose raw is that address
    imageObj,    \* native ChafaImage objects, by address
    hImage,      \* number of live Rust Image values whose raw is that address
    placementObj,\* native ChafaPlacement objects, by address
    hPlacement,  \* number of live Rust Placement values whose raw is that address
    dbObj,       \* native ChafaTermDb objects, by address; address 0 is the process-wide default
    hDb,         \* number of live Rust Db values whose raw is that address
    ndefault,    \* number of Db::default calls made so far
    infoObj,     \* native ChafaTermInfo objects, by address
    hInfo,       \* number of live Rust Info values whose raw is that address
    nsetops,     \* number of Info setter calls made so far
    ngets,       \* number of Info::get_seq calls made so far
    lastMerge,   \* history: the latest Info::chain or Info::supplement call
    lastSet,     \* history: the latest Info::set_seq call, if no setter or merge came after it
    lastGet,     \* history: the latest Info::get_seq call, if it was the latest operation on sequences
    detected,    \* history: the latest Db::detect call
    panicked,    \* a call has panicked
    geom,        \* history: the latest calc_canvas_geometry call
    symObj,      \* the native ChafaSymbolMap: its references and its selector list
    hSym,        \* number of live Rust SymbolMap values
    nsymops,     \* number of calls that changed a symbol map so far
    lastCall,    \* history: the latest apply_selectors call, if it was the latest operation
    glyphOf,     \* the glyphs assigned to code points of the symbol map
    lastGlyph,   \* history: the latest add_glyph call
    cells,       \* the cell grid of each native canvas
    ncellops,    \* number of calls that changed a cell so far
    lastPut,     \* history: the latest set_char_at call, if no colour was set since
    lastWide,    \* history: the latest set_char_at call that gave 2, if no later one stored a character
    lastPaint,   \* history: the latest set_colors_at or set_raw_colors_at call, if no cell changed since
    lastStr,     \* history: the latest create_string or create_string_rows call, if no cell changed since
    prevStr,     \* history: the call of the same kind before it, if no cell changed in between
    once,        \* the one-time initialisation guard of the default database
    pc,          \* where each thread is in Db::default
    ncreated,    \* number of default databases constructed so far
    lastConv     \* history: the latest Seq::from(u32) call

cfgVars == <<cfgObj, hCfg, nsets, npeeks, snap>>
chainVars == <<frameObj, hFrame, imageObj, hImage, placementObj, hPlacement>>

termVars == <<nsetops, ngets, lastMerge, lastSet, lastGet, detected, panicked>>
dbVars == <<dbObj, hDb, ndefault, infoObj, hInfo, termVars>>

selVars == <<symObj, hSym, nsymops, lastCall>>

glyphVars == <<glyphOf, lastGlyph>>
paintVars == <<cells, ncellops, lastPut, lastWide, lastPaint, lastStr, prevStr>>
onceVars == <<once, pc, ncreated>>
restVars == <<glyphVars, paintVars, onceVars, lastConv>>

vars == <<cfgVars, canvasObj, uaf, chainVars, dbVars, selVars, geom, restVars>>

\* what the operations on one group of objects leave alone
exceptHeap == <<dbVars, selVars, geom, restVars>>
exceptDb == <<cfgVars, canvasObj, chainVars, selVars, geom, restVars>>
exceptSel == <<cfgVars, canvasObj, chainVars, dbVars, geom, restVars>>
exceptGeom == <<cfgVars, canvasObj, chainVars, dbVars, selVars, restVars>>
exceptGlyph == <<cfgVars, canvasObj, chainVars, dbVars, geom, paintVars, onceVars, lastConv>>
exceptPaint == <<cfgVars, chainVars, selVars, geom, glyphVars, onceVars, lastConv>>
exceptOnce == <<cfgVars, canvasObj, chainVars, selVars, geom, glyphVars, paintVars, lastConv>>

(***************************************************************************)
(* Bounds of the model.                                                    *)
(***************************************************************************)
MaxCfg == 2        \* native configurations ever allocated
MaxFrame == 1      \* native frames ever allocated
MaxImage == 1      \* native images ever allocated
MaxPlacement == 2  \* native placements ever allocated
MaxCanvas == 1     \* native canvases ever allocated
MaxPeeks == 1      \* Canvas::config calls in one run
MaxSets == 1       \* setter calls in one run
MaxDb == 1         \* native terminal databases ever allocated by Db::new
MaxDefault == 2    \* Db::default calls in one run
MaxInfo == 3       \* native terminal descriptions ever allocated
MaxSetOps == 2     \* Info setter calls in one run
MaxGets == 2       \* Info::get_seq calls in one run
MaxSymOps == 2     \* calls that change a symbol map in one run
MaxX == 1          \* the last column of a canvas
MaxY == 0          \* the last row of a canvas
MaxCellOps == 2    \* calls that change a cell in one run
MaxThreads == 2    \* threads that call Db::default

CfgIds == 1..MaxCfg
CanvasIds == 1..MaxCanvas
FrameIds == 1..MaxFrame
ImageIds == 1..MaxImage
PlacementIds == 1..MaxPlacement
DefaultDb == 0
DbIds == 0..MaxDb
InfoIds == 1..MaxInfo
Vals == {0, 1}       \* raw values of a configuration field

(***************************************************************************)
(* Reference counting of a native object: acq references were acquired     *)
(* (the one of its constructor and one per ref), rel were released.  The   *)
(* object is freed by the release that makes rel = acq.                    *)
(***************************************************************************)
NoObj == [acq |-> 0, rel |-> 0]
Allocated(o) == o.acq > 0
Live(o) == o.acq > o.rel
Released(o) == o.acq > 0 /\ o.rel >= o.acq
OverReleased(o) == o.rel > o.acq

\* g_object-style unref: one more release of the object
Unref(o) == [o EXCEPT !.rel = @ + 1]
Ref(o) == [o EXCEPT !.acq = @ + 1]

(***************************************************************************)
(* Configuration values.  The fields are the ones Config has setters for.  *)
(***************************************************************************)
Fields == {"geometry", "cell_geometry", "pixel_mode", "canvas_mode",
           "color_extractor", "color_space", "preprocessing_enabled"}
DefaultVal == [f \in Fields |-> 0]

NoCfg == [acq |-> 0, rel |-> 0, val |-> DefaultVal, owner |-> "none"]
NoCanvas == [acq |-> 0, rel |-> 0, cfg |-> 0, placement |-> 0, peeked |-> FALSE]
NoFrame == [acq |-> 0, rel |-> 0, pixfrees |-> 0, pixels |-> "none"]
NoImage == [acq |-> 0, rel |-> 0, frame |-> 0]
NoPlacement == [acq |-> 0, rel |-> 0, image |-> 0]

\* the control sequence kinds of the model: one whose argument is formatted
\* with up to four digits, one whose arguments are 8-bit (three digits)
Kinds == {"CursorUp", "SetColorFgDirect"}
\* what a sequence slot of a terminal description can hold: nothing, one of
\* the templates set_seq accepts, or the bytes left in a freed string
SeqVals == {"absent", "short", "fits3", "garbage"}
Names == {"xterm", "tmux"}

(***************************************************************************)
(* A native ChafaTermInfo: for each kind the template string (seq), whether *)
(* the string's memory was freed while the description still points to it  *)
(* (freed), the inheritance flag, and the value get_seq returned for the   *)
(* kind since the slot last changed (got, a history field); the name       *)
(* ("unset": NULL), the quirks and the safe symbol tags (0: none).         *)
(***************************************************************************)
NoInfo ==
    [acq |-> 0, rel |-> 0, origin |-> "none",
     seq |-> [k \in Kinds |-> "absent"],
     freed |-> [k \in Kinds |-> FALSE],
     inherit |-> [k \in Kinds |-> TRUE],
     got |-> [k \in Kinds |-> "never"],
     name |-> "unset", quirks |-> 0, tags |-> 0]

\* the first address not yet handed out, 0 when the pool is used up
FreshCfg == IF \E k \in CfgIds : ~Allocated(cfgObj[k])
            THEN CHOOSE k \in CfgIds : ~Allocated(cfgObj[k]) /\ \A j \in 1..(k-1) : Allocated(cfgObj[j])
            ELSE 0
FreshCanvas == IF \E c \in CanvasIds : ~Allocated(canvasObj[c])
               THEN CHOOSE c \in CanvasIds : ~Allocated(canvasObj[c]) /\ \A j \in 1..(c-1) : Allocated(canvasObj[j])
               ELSE 0

InitCfg ==
    /\ cfgObj = [k \in CfgIds |-> NoCfg]
    /\ hCfg = [k \in CfgIds |-> 0]
    /\ nsets = 0
    /\ npeeks = 0
    /\ canvasObj = [c \in CanvasIds |-> NoCanvas]
    /\ snap = [c \in CanvasIds |-> [val |-> DefaultVal, src |-> 0]]
    /\ uaf = FALSE

InitChain ==
    /\ frameObj = [f \in FrameIds |-> NoFrame]
    /\ hFrame = [f \in FrameIds |-> 0]
    /\ imageObj = [i \in ImageIds |-> NoImage]
    /\ hImage = [i \in ImageIds |-> 0]
    /\ placementObj = [p \in PlacementIds |-> NoPlacement]
    /\ hPlacement = [p \in PlacementIds |-> 0]

(***************************************************************************)
(* Config::new: chafa_canvas_config_new gives a fresh configuration with   *)
(* default settings and one reference, owned by the returned Config.       *)
(***************************************************************************)
Config_new ==
    /\ FreshCfg # 0
    /\ cfgObj' = [cfgObj EXCEPT ![FreshCfg] =
                    [acq |-> 1, rel |-> 0, val |-> DefaultVal, owner |-> "rust"]]
    /\ hCfg' = [hCfg EXCEPT ![FreshCfg] = 1]
    /\ UNCHANGED <<nsets, npeeks, canvasObj, snap, uaf, chainVars, exceptHeap>>

(***************************************************************************)
(* A setter of Config, through a Config value whose raw is k: the native   *)
(* setter stores v in the field of the object raw points to.  The wrapper  *)
(* takes &self and makes no check of where the Config came from.  A store  *)
(* through a raw whose object was released writes freed memory.            *)
(***************************************************************************)
SetField(k, f, v) ==
    /\ hCfg[k] > 0
    /\ nsets < MaxSets
    /\ nsets' = nsets + 1
    /\ cfgObj' = [cfgObj EXCEPT ![k].val[f] = v]
    /\ uaf' = (uaf \/ ~Live(cfgObj[k]))
    /\ UNCHANGED <<hCfg, npeeks, canvasObj, snap, chainVars, exceptHeap>>

Config_set_geometry == \E k \in CfgIds, v \in Vals : SetField(k, "geometry", v)
Config_set_cell_geometry == \E k \in CfgIds, v \in Vals : SetField(k, "cell_geometry", v)
Config_set_pixel_mode == \E k \in CfgIds, v \in Vals : SetField(k, "pixel_mode", v)
Config_set_canvas_mode == \E k \in CfgIds, v \in Vals : SetField(k, "canvas_mode", v)
Config_set_color_extractor == \E k \in CfgIds, v \in Vals : SetField(k, "color_extractor", v)
Config_set_color_space == \E k \in CfgIds, v \in Vals : SetField(k, "color_space", v)
Config_set_preprocessing_enabled == \E k \in CfgIds, v \in Vals : SetField(k, "preprocessing_enabled", v)

\* a getter of Config, through a Config value whose raw is k
Config_get(k, f) == cfgObj[k].val[f]

(***************************************************************************)
(* Drop for Config: chafa_canvas_config_unref on raw, whatever the Config  *)
(* was made from.                                                          *)
(***************************************************************************)
Config_drop ==
    \E k \in CfgIds :
        /\ hCfg[k] > 0
        /\ hCfg' = [hCfg EXCEPT ![k] = @ - 1]
        /\ cfgObj' = [cfgObj EXCEPT ![k] = Unref(@)]
        /\ uaf' = (uaf \/ ~Live(cfgObj[k]))
        /\ UNCHANGED <<nsets, npeeks, canvasObj, snap, chainVars, exceptHeap>>

\* Canvas_new with the canvas keeping a reference to the caller's configuration
\* instead of a copy of it
Canvas_new_shared ==
    \E k \in CfgIds :
        /\ hCfg[k] > 0
        /\ FreshCanvas # 0
        /\ cfgObj' = [cfgObj EXCEPT ![k] = Ref(@)]
        /\ canvasObj' = [canvasObj EXCEPT ![FreshCanvas] = [acq |-> 1, rel |-> 0, cfg |-> k, placement |-> 0, peeked |-> FALSE]]
        /\ snap' = [snap EXCEPT ![FreshCanvas] = [val |-> cfgObj[k].val, src |-> k]]
        /\ uaf' = (uaf \/ ~Live(cfgObj[k]))
        /\ UNCHANGED <<hCfg, nsets, npeeks, chainVars, exceptHeap>>

(***************************************************************************)
(* Canvas::new(&config): chafa_canvas_new makes a private copy of the      *)
(* configuration raw points to; the canvas owns the copy's one reference.  *)
(* The caller keeps its Config.                                            *)
(***************************************************************************)
Canvas_new ==
    \E k \in CfgIds :
        /\ hCfg[k] > 0
        /\ FreshCfg # 0 /\ FreshCanvas # 0
        /\ cfgObj' = [cfgObj EXCEPT ![FreshCfg] =
                        [acq |-> 1, rel |-> 0, val |-> cfgObj[k].val, owner |-> "canvas"]]
        /\ canvasObj' = [canvasObj EXCEPT ![FreshCanvas] = [acq |-> 1, rel |-> 0, cfg |-> FreshCfg, placement |-> 0, peeked |-> FALSE]]
        /\ snap' = [snap EXCEPT ![FreshCanvas] = [val |-> cfgObj[k].val, src |-> k]]
        /\ uaf' = (uaf \/ ~Live(cfgObj[k]))
        /\ UNCHANGED <<hCfg, nsets, npeeks, chainVars, exceptHeap>>

(***************************************************************************)
(* Canvas::config(&self): chafa_canvas_peek_config returns the address of  *)
(* the canvas's own configuration without taking a reference, and the      *)
(* wrapper puts it, cast to *mut, in an owning Config.                     *)
(***************************************************************************)
Canvas_config ==
    \E c \in CanvasIds :
        /\ Live(canvasObj[c])
        /\ npeeks < MaxPeeks
        /\ npeeks' = npeeks + 1
        /\ hCfg' = [hCfg EXCEPT ![canvasObj[c].cfg] = @ + 1]
        /\ canvasObj' = [canvasObj EXCEPT ![c].peeked = TRUE]
        /\ UNCHANGED <<cfgObj, nsets, snap, uaf, chainVars, exceptHeap>>

(***************************************************************************)
(* The placement chain.  A frame owns its pixel memory (a private copy     *)
(* made by Frame::new, or the caller's buffer taken over by                *)
(* Frame::new_steal) and frees it when its last reference goes.  An image  *)
(* holds a reference to at most one frame, a placement a reference to its  *)
(* image, a canvas a reference to at most one placement; each native       *)
(* destructor releases the reference the object holds.                     *)
(***************************************************************************)
\* the release that makes rel = acq runs the destructor
LastRef(o) == o.rel + 1 = o.acq

\* chafa_frame_unref on address f of frame heap F (0: no frame)
UnrefFrame(F, f) ==
    IF f = 0 THEN F
    ELSE [F EXCEPT ![f].rel = @ + 1,
                   ![f].pixfrees = IF LastRef(F[f]) THEN @ + 1 ELSE @]

\* chafa_image_unref on address i of the heaps <<I, F>>
UnrefImage(IF_, i) ==
    LET I == IF_[1]
        F == IF_[2]
    IN  IF i = 0 THEN IF_
        ELSE <<[I EXCEPT ![i].rel = @ + 1],
               IF LastRef(I[i]) THEN UnrefFrame(F, I[i].frame) ELSE F>>

\* chafa_placement_unref on address p of the heaps <<P, I, F>>
UnrefPlacement(PIF, p) ==
    LET P == PIF[1]
        rest == <<PIF[2], PIF[3]>>
        after == IF p # 0 /\ LastRef(P[p]) THEN UnrefImage(rest, P[p].image) ELSE rest
    IN  IF p = 0 THEN PIF
        ELSE <<[P EXCEPT ![p].rel = @ + 1], after[1], after[2]>>

\* a release of an object that is not live touches freed memory
StaleUnref(H, a) == a # 0 /\ ~Live(H[a])

FreshIn(H, Ids) ==
    IF \E a \in Ids : ~Allocated(H[a])
    THEN CHOOSE a \in Ids : ~Allocated(H[a]) /\ \A j \in 1..(a-1) : Allocated(H[j])
    ELSE 0

(***************************************************************************)
(* Frame::new (copy = TRUE) and Frame::new_steal (copy = FALSE): a fresh   *)
(* frame with one reference, owning its pixel memory.                      *)
(***************************************************************************)
NewFrame(copy) ==
    LET f == FreshIn(frameObj, FrameIds) IN
    /\ f # 0
    /\ frameObj' = [frameObj EXCEPT ![f] =
                      [acq |-> 1, rel |-> 0, pixfrees |-> 0,
                       pixels |-> IF copy THEN "copied" ELSE "stolen"]]
    /\ hFrame' = [hFrame EXCEPT ![f] = 1]
    /\ UNCHANGED <<cfgVars, canvasObj, uaf, imageObj, hImage, placementObj, hPlacement, exceptHeap>>

Frame_new == NewFrame(TRUE)
Frame_new_steal == NewFrame(FALSE)

\* Drop for Frame: chafa_frame_unref on raw
Frame_drop ==
    \E f \in FrameIds :
        /\ hFrame[f] > 0
        /\ hFrame' = [hFrame EXCEPT ![f] = @ - 1]
        /\ frameObj' = UnrefFrame(frameObj, f)
        /\ uaf' = (uaf \/ StaleUnref(frameObj, f))
        /\ UNCHANGED <<cfgVars, canvasObj, imageObj, hImage, placementObj, hPlacement, exceptHeap>>

\* Image::new: a fresh image with one reference and no frame
Image_new ==
    LET i == FreshIn(imageObj, ImageIds) IN
    /\ i # 0
    /\ imageObj' = [imageObj EXCEPT ![i] = [acq |-> 1, rel |-> 0, frame |-> 0]]
    /\ hImage' = [hImage EXCEPT ![i] = 1]
    /\ UNCHANGED <<cfgVars, canvasObj, uaf, frameObj, hFrame, placementObj, hPlacement, exceptHeap>>

\* Image_set_frame with the image storing the frame's address without taking a
\* reference of its own
Image_set_frame_borrowed ==
    \E i \in ImageIds, f \in FrameIds :
        /\ hImage[i] > 0 /\ hFrame[f] > 0
        /\ frameObj' = UnrefFrame(UnrefFrame(frameObj, imageObj[i].frame), f)
        /\ imageObj' = [imageObj EXCEPT ![i].frame = f]
        /\ hFrame' = [hFrame EXCEPT ![f] = @ - 1]
        /\ uaf' = (uaf \/ ~Live(frameObj[f]) \/ ~Live(imageObj[i]))
        /\ UNCHANGED <<cfgVars, canvasObj, hImage, placementObj, hPlacement, exceptHeap>>

(***************************************************************************)
(* Image::set_frame(&self, frame: Frame): chafa_image_set_frame takes the  *)
(* image's own reference to the frame and releases the one to the frame    *)
(* it held before; then the Frame passed by value is dropped as the        *)
(* method returns.                                                         *)
(***************************************************************************)
Image_set_frame ==
    \E i \in ImageIds, f \in FrameIds :
        /\ hImage[i] > 0 /\ hFrame[f] > 0
        /\ LET refd == [frameObj EXCEPT ![f] = Ref(@)]
               swapped == UnrefFrame(refd, imageObj[i].frame)
           IN  frameObj' = UnrefFrame(swapped, f)
        /\ imageObj' = [imageObj EXCEPT ![i].frame = f]
        /\ hFrame' = [hFrame EXCEPT ![f] = @ - 1]
        /\ uaf' = (uaf \/ ~Live(frameObj[f]) \/ ~Live(imageObj[i]))
        /\ UNCHANGED <<cfgVars, canvasObj, hImage, placementObj, hPlacement, exceptHeap>>

\* Drop for Image: chafa_image_unref on raw
Image_drop ==
    \E i \in ImageIds :
        /\ hImage[i] > 0
        /\ hImage' = [hImage EXCEPT ![i] = @ - 1]
        /\ LET after == UnrefImage(<<imageObj, frameObj>>, i)
           IN  imageObj' = after[1] /\ frameObj' = after[2]
        /\ uaf' = (uaf \/ StaleUnref(imageObj, i))
        /\ UNCHANGED <<cfgVars, canvasObj, hFrame, placementObj, hPlacement, exceptHeap>>

(***************************************************************************)
(* Placement::new(image: Image, id): chafa_placement_new gives a fresh     *)
(* placement with one reference, which takes its own reference to the      *)
(* image; then the Image passed by value is dropped.                       *)
(***************************************************************************)
Placement_new ==
    \E i \in ImageIds :
        LET p == FreshIn(placementObj, PlacementIds)
            refd == [imageObj EXCEPT ![i] = Ref(@)]
            after == UnrefImage(<<refd, frameObj>>, i)
        IN  /\ hImage[i] > 0
            /\ p # 0
            /\ placementObj' = [placementObj EXCEPT ![p] = [acq |-> 1, rel |-> 0, image |-> i]]
            /\ hPlacement' = [hPlacement EXCEPT ![p] = 1]
            /\ imageObj' = after[1] /\ frameObj' = after[2]
            /\ hImage' = [hImage EXCEPT ![i] = @ - 1]
            /\ uaf' = (uaf \/ ~Live(imageObj[i]))
            /\ UNCHANGED <<cfgVars, canvasObj, hFrame, exceptHeap>>

\* Drop for Placement: chafa_placement_unref on raw
Placement_drop ==
    \E p \in PlacementIds :
        /\ hPlacement[p] > 0
        /\ hPlacement' = [hPlacement EXCEPT ![p] = @ - 1]
        /\ LET after == UnrefPlacement(<<placementObj, imageObj, frameObj>>, p)
           IN  placementObj' = after[1] /\ imageObj' = after[2] /\ frameObj' = after[3]
        /\ uaf' = (uaf \/ StaleUnref(placementObj, p))
        /\ UNCHANGED <<cfgVars, canvasObj, hFrame, hImage, exceptHeap>>

\* Canvas_set_placement with the canvas storing the placement's address without
\* taking a reference of its own
Canvas_set_placement_borrowed ==
    \E c \in CanvasIds, p \in PlacementIds :
        /\ Live(canvasObj[c]) /\ hPlacement[p] > 0
        /\ LET swapped == UnrefPlacement(<<placementObj, imageObj, frameObj>>, canvasObj[c].placement)
               after == UnrefPlacement(swapped, p)
           IN  placementObj' = after[1] /\ imageObj' = after[2] /\ frameObj' = after[3]
        /\ canvasObj' = [canvasObj EXCEPT ![c].placement = p]
        /\ hPlacement' = [hPlacement EXCEPT ![p] = @ - 1]
        /\ uaf' = (uaf \/ ~Live(placementObj[p]))
        /\ UNCHANGED <<cfgVars, hFrame, hImage, exceptHeap>>

(***************************************************************************)
(* Canvas::set_placement(&self, placement: Placement):                     *)
(* chafa_canvas_set_placement takes the canvas's reference to the          *)
(* placement and releases the one to the placement it held before; then    *)
(* the Placement passed by value is dropped.                               *)
(***************************************************************************)
Canvas_set_placement ==
    \E c \in CanvasIds, p \in PlacementIds :
        /\ Live(canvasObj[c]) /\ hPlacement[p] > 0
        /\ LET refd == [placementObj EXCEPT ![p] = Ref(@)]
               swapped == UnrefPlacement(<<refd, imageObj, frameObj>>, canvasObj[c].placement)
               after == UnrefPlacement(swapped, p)
           IN  placementObj' = after[1] /\ imageObj' = after[2] /\ frameObj' = after[3]
        /\ canvasObj' = [canvasObj EXCEPT ![c].placement = p]
        /\ hPlacement' = [hPlacement EXCEPT ![p] = @ - 1]
        /\ uaf' = (uaf \/ ~Live(placementObj[p]))
        /\ UNCHANGED <<cfgVars, hFrame, hImage, exceptHeap>>

(***************************************************************************)
(* Drop for Canvas: chafa_canvas_unref releases the wrapper's reference,   *)
(* the only one; the native destructor releases the canvas's reference to  *)
(* its configuration copy and to its placement.                            *)
(***************************************************************************)
Canvas_drop ==
    \E c \in CanvasIds :
        /\ Live(canvasObj[c])
        /\ canvasObj' = [canvasObj EXCEPT ![c] = Unref(@)]
        /\ cfgObj' = [cfgObj EXCEPT ![canvasObj[c].cfg] = Unref(@)]
        /\ LET after == UnrefPlacement(<<placementObj, imageObj, frameObj>>, canvasObj[c].placement)
           IN  placementObj' = after[1] /\ imageObj' = after[2] /\ frameObj' = after[3]
        /\ uaf' = (uaf \/ ~Live(cfgObj[canvasObj[c].cfg]))
        /\ UNCHANGED <<hCfg, nsets, npeeks, snap, hFrame, hImage, hPlacement, exceptHeap>>

(***************************************************************************)
(* Terminal databases.  chafa_term_db_get_default builds the process-wide  *)
(* default database on its first call and returns the same address ever    *)
(* after; the library keeps the one reference to it, and the caller is     *)
(* given none.                                                             *)
(***************************************************************************)
NoMerge == [op |-> "none", outer |-> NoInfo, inner |-> NoInfo, result |-> 0, res |-> NoInfo]
NoSet == [made |-> FALSE, info |-> 0, kind |-> "none", template |-> "None",
          outcome |-> "none", before |-> NoInfo]
NoGet == [made |-> FALSE, info |-> 0, kind |-> "none", val |-> "absent"]
NoDetect == [made |-> FALSE, env |-> "none", live |-> TRUE, ok |-> TRUE]

InitDb ==
    /\ dbObj = [d \in DbIds |-> NoObj]
    /\ hDb = [d \in DbIds |-> 0]
    /\ ndefault = 0
    /\ infoObj = [t \in InfoIds |-> NoInfo]
    /\ hInfo = [t \in InfoIds |-> 0]
    /\ nsetops = 0
    /\ ngets = 0
    /\ lastMerge = NoMerge
    /\ lastSet = NoSet
    /\ lastGet = NoGet
    /\ detected = NoDetect
    /\ panicked = FALSE

\* Db::new: a fresh, blank database with one reference, owned by the returned Db
Db_new ==
    LET d == CHOOSE x \in DbIds \ {DefaultDb} :
                 ~Allocated(dbObj[x]) /\ \A j \in 1..(x-1) : Allocated(dbObj[j])
    IN  /\ \E x \in DbIds \ {DefaultDb} : ~Allocated(dbObj[x])
        /\ dbObj' = [dbObj EXCEPT ![d] = [acq |-> 1, rel |-> 0]]
        /\ hDb' = [hDb EXCEPT ![d] = 1]
        /\ UNCHANGED <<ndefault, infoObj, hInfo, termVars, uaf, exceptDb>>

(***************************************************************************)
(* Db::default: the address chafa_term_db_get_default returns, for which   *)
(* the caller holds no reference, is put in an owning Db.                  *)
(***************************************************************************)
Db_default ==
    /\ ndefault < MaxDefault
    /\ ndefault' = ndefault + 1
    /\ dbObj' = IF Allocated(dbObj[DefaultDb]) THEN dbObj
                ELSE [dbObj EXCEPT ![DefaultDb] = [acq |-> 1, rel |-> 0]]
    /\ hDb' = [hDb EXCEPT ![DefaultDb] = @ + 1]
    /\ UNCHANGED <<infoObj, hInfo, termVars, uaf, exceptDb>>

\* Drop for Db: chafa_term_db_unref on raw, wherever the Db came from
Db_drop ==
    \E d \in DbIds :
        /\ hDb[d] > 0
        /\ hDb' = [hDb EXCEPT ![d] = @ - 1]
        /\ dbObj' = [dbObj EXCEPT ![d] = Unref(@)]
        /\ uaf' = (uaf \/ ~Live(dbObj[d]))
        /\ UNCHANGED <<ndefault, infoObj, hInfo, termVars, exceptDb>>

\* a blank terminal description with one reference: what chafa_term_info_new
\* returns
BlankInfo == [NoInfo EXCEPT !.acq = 1]

\* the environments a process may run in
Envs == {"empty", "xterm", "unknown", "garbage"}

\* g_get_environ: a copy of the environment, never NULL (an empty environment
\* is an array holding only its terminator)
g_get_environ(env) == [null |-> FALSE, env |-> env]

\* a detection that gives up on an environment it does not know
chafa_term_db_detect_strict(env) ==
    [null |-> env \notin {"xterm"},
     info |-> [BlankInfo EXCEPT !.origin = "detect"]]

\* chafa_term_db_detect: a new terminal description for the environment; an
\* environment that matches nothing gets a description with no sequences
chafa_term_db_detect(env) ==
    [null |-> FALSE,
     info |-> IF env = "xterm"
              THEN [BlankInfo EXCEPT !.origin = "detect", !.name = "xterm",
                                     !.seq = [k \in Kinds |-> "short"]]
              ELSE [BlankInfo EXCEPT !.origin = "detect"]]

\* chafa_term_db_get_fallback_info: a new description with the fallback sequences
chafa_term_db_get_fallback_info ==
    [BlankInfo EXCEPT !.origin = "fallback", !.seq = [k \in Kinds |-> "short"]]

(***************************************************************************)
(* Db::detect(&self): Err when g_get_environ or chafa_term_db_detect       *)
(* returns NULL, else the new description in an owning Info.  A database   *)
(* that was released is freed memory: what a detection on it yields is not *)
(* determined.                                                             *)
(***************************************************************************)
Db_detect ==
    \E d \in DbIds, env \in Envs, stale \in BOOLEAN :
        LET envp == g_get_environ(env)
            r == chafa_term_db_detect(envp.env)
            t == FreshIn(infoObj, InfoIds)
            ok == ~envp.null /\ ~r.null /\ (Live(dbObj[d]) \/ ~stale)
        IN  /\ hDb[d] > 0
            /\ t # 0
            /\ Live(dbObj[d]) => ~stale
            /\ infoObj' = IF ok THEN [infoObj EXCEPT ![t] = r.info] ELSE infoObj
            /\ hInfo' = IF ok THEN [hInfo EXCEPT ![t] = 1] ELSE hInfo
            /\ detected' = [made |-> TRUE, env |-> env, live |-> Live(dbObj[d]), ok |-> ok]
            /\ uaf' = (uaf \/ ~Live(dbObj[d]))
            /\ UNCHANGED <<dbObj, hDb, ndefault, nsetops, ngets, lastMerge, lastSet, lastGet,
                           panicked, exceptDb>>

\* Db::get_fallback_info(&self): Err on NULL, else the new description in an
\* owning Info
Db_get_fallback_info ==
    \E d \in DbIds :
        LET t == FreshIn(infoObj, InfoIds) IN
        /\ hDb[d] > 0
        /\ t # 0
        /\ infoObj' = [infoObj EXCEPT ![t] = chafa_term_db_get_fallback_info]
        /\ hInfo' = [hInfo EXCEPT ![t] = 1]
        /\ uaf' = (uaf \/ ~Live(dbObj[d]))
        /\ UNCHANGED <<dbObj, hDb, ndefault, termVars, exceptDb>>

\* Drop for Info: chafa_term_info_unref on raw
Info_drop ==
    \E t \in InfoIds :
        /\ hInfo[t] > 0
        /\ hInfo' = [hInfo EXCEPT ![t] = @ - 1]
        /\ infoObj' = [infoObj EXCEPT ![t] = Unref(@)]
        /\ uaf' = (uaf \/ ~Live(infoObj[t]))
        /\ UNCHANGED <<dbObj, hDb, ndefault, termVars, exceptDb>>

(***************************************************************************)
(* Terminal descriptions.  The templates callers pass to set_seq: lit is   *)
(* the number of literal bytes, args the number of %n arguments, wf says   *)
(* that the template parses, nul that the Rust string holds a NUL byte.    *)
(***************************************************************************)
CHAFA_TERM_SEQ_LENGTH_MAX == 96
TemplateIds == {"short", "fits3", "bad", "nul"}
Template ==
    [s \in TemplateIds |->
        CASE s = "short" -> [lit |-> 4, args |-> 0, wf |-> TRUE, nul |-> FALSE]
          [] s = "fits3" -> [lit |-> 93, args |-> 1, wf |-> TRUE, nul |-> FALSE]
          [] s = "bad" -> [lit |-> 4, args |-> 1, wf |-> FALSE, nul |-> FALSE]
          [] s = "nul" -> [lit |-> 4, args |-> 0, wf |-> TRUE, nul |-> TRUE]]

\* digits an argument of the kind can take when formatted
ArgDigits == [k \in Kinds |-> IF k = "SetColorFgDirect" THEN 3 ELSE 4]

\* the longest string the template can format to, for the kind
Expansion(k, s) == Template[s].lit + ArgDigits[k] * Template[s].args

\* the template is one chafa_term_info_set_seq stores for the kind
Accepted(k, s) == Template[s].wf /\ Expansion(k, s) <= CHAFA_TERM_SEQ_LENGTH_MAX

(***************************************************************************)
(* chafa_term_info_set_seq on description info: NULL clears the sequence,  *)
(* an accepted template replaces it (the old string is freed), and a       *)
(* template that does not parse or can format to more than                 *)
(* CHAFA_TERM_SEQ_LENGTH_MAX bytes sets the error and changes nothing.     *)
(***************************************************************************)
chafa_term_info_set_seq(info, k, s) ==
    IF s = "None" \/ Accepted(k, s)
    THEN [ok |-> TRUE,
          info |-> [info EXCEPT !.seq[k] = IF s = "None" THEN "absent" ELSE s,
                                !.freed[k] = FALSE,
                                !.got[k] = "never"]]
    ELSE [ok |-> FALSE, info |-> info]

\* a chain in which an absent sequence falls back to whichever side has one
ChainSeqEitherSide(outer, inner, k) ==
    IF inner.inherit[k]
    THEN IF inner.seq[k] = "absent" THEN outer.seq[k] ELSE inner.seq[k]
    ELSE inner.seq[k]

\* a chain that takes inner's sequence whenever the kind is inherited
ChainSeqInnerFirst(outer, inner, k) ==
    IF inner.inherit[k] /\ inner.seq[k] = "absent" /\ outer.seq[k] = "absent"
    THEN outer.seq[k]
    ELSE inner.seq[k]

\* a chain that lets every kind inherit from outer, whatever inner's flag
ChainSeqAlwaysInherit(outer, inner, k) ==
    IF inner.seq[k] = "absent" \/ outer.seq[k] = "absent"
    THEN outer.seq[k]
    ELSE inner.seq[k]

(***************************************************************************)
(* chafa_term_info_chain(outer, inner), by kind.  For a sequence marked as *)
(* inherited in inner: if either the inner or the outer sequence is NULL,  *)
(* the outer sequence, otherwise the inner sequence.  For a sequence not   *)
(* marked as inherited, the inner sequence.                                *)
(***************************************************************************)
ChainSeq(outer, inner, k) ==
    IF inner.inherit[k]
    THEN IF inner.seq[k] = "absent" \/ outer.seq[k] = "absent"
         THEN outer.seq[k]
         ELSE inner.seq[k]
    ELSE inner.seq[k]

\* a chain that takes name, quirks and tags from inner whether set or not
ChainMetaInnerOnly(outer, inner) ==
    [name |-> inner.name, quirks |-> inner.quirks, tags |-> inner.tags]

\* name, quirks and safe symbol tags of a chain: inner's unless unset
ChainMeta(outer, inner) ==
    [name |-> IF inner.name # "unset" THEN inner.name ELSE outer.name,
     quirks |-> IF inner.quirks # 0 THEN inner.quirks ELSE outer.quirks,
     tags |-> IF inner.tags # 0 THEN inner.tags ELSE outer.tags]

\* the merged description is a new instance with one reference
chafa_term_info_chain(outer, inner) ==
    LET m == ChainMeta(outer, inner) IN
    [BlankInfo EXCEPT !.origin = "chain",
                      !.seq = [k \in Kinds |-> ChainSeq(outer, inner, k)],
                      !.inherit = inner.inherit,
                      !.name = m.name, !.quirks = m.quirks, !.tags = m.tags]

\* a supplement that copies only the kinds target lets inherit
SupplementSeqInherited(target, source, k) ==
    IF target.seq[k] = "absent" /\ target.inherit[k] THEN source.seq[k] ELSE target.seq[k]

\* chafa_term_info_supplement(target, source), by kind: a sequence missing in
\* target is copied from source
SupplementSeq(target, source, k) ==
    IF target.seq[k] = "absent" THEN source.seq[k] ELSE target.seq[k]


chafa_term_info_supplement(target, source) ==
    [target EXCEPT
        !.seq = [k \in Kinds |-> SupplementSeq(target, source, k)],
        !.freed = [k \in Kinds |-> target.freed[k] /\ target.seq[k] # "absent"],
        !.got = [k \in Kinds |-> IF target.seq[k] = "absent" THEN "never"
                                 ELSE target.got[k]]]

\* Info::new: a blank description in an owning Info
Info_new ==
    LET t == FreshIn(infoObj, InfoIds) IN
    /\ t # 0
    /\ infoObj' = [infoObj EXCEPT ![t] = [BlankInfo EXCEPT !.origin = "new"]]
    /\ hInfo' = [hInfo EXCEPT ![t] = 1]
    /\ UNCHANGED <<dbObj, hDb, ndefault, termVars, uaf, exceptDb>>

(***************************************************************************)
(* Info::chain(outer: Self, inner: Self): the merged description in an     *)
(* owning Info; outer and inner were moved in and are dropped on return.   *)
(***************************************************************************)
Info_chain ==
    \E o \in InfoIds, i \in InfoIds :
        LET t == FreshIn(infoObj, InfoIds)
            r == chafa_term_info_chain(infoObj[o], infoObj[i])
        IN  /\ o # i
            /\ hInfo[o] > 0
            /\ hInfo[i] > 0
            /\ t # 0
            /\ infoObj' = [infoObj EXCEPT ![t] = r, ![o] = Unref(@), ![i] = Unref(@)]
            /\ hInfo' = [hInfo EXCEPT ![t] = 1, ![o] = @ - 1, ![i] = @ - 1]
            /\ lastMerge' = [op |-> "chain", outer |-> infoObj[o], inner |-> infoObj[i],
                             result |-> t, res |-> r]
            /\ lastSet' = NoSet
            /\ lastGet' = NoGet
            /\ uaf' = (uaf \/ ~Live(infoObj[o]) \/ ~Live(infoObj[i]))
            /\ UNCHANGED <<dbObj, hDb, ndefault, nsetops, ngets, detected, panicked, exceptDb>>

\* Info::supplement(&self, source: Self): source was moved in and is dropped on
\* return
Info_supplement ==
    \E t \in InfoIds, src \in InfoIds :
        LET r == chafa_term_info_supplement(infoObj[t], infoObj[src]) IN
        /\ t # src
        /\ hInfo[t] > 0
        /\ hInfo[src] > 0
        /\ infoObj' = [infoObj EXCEPT ![t] = r, ![src] = Unref(@)]
        /\ hInfo' = [hInfo EXCEPT ![src] = @ - 1]
        /\ lastMerge' = [op |-> "supplement", outer |-> infoObj[t], inner |-> infoObj[src],
                         result |-> t, res |-> r]
        /\ lastSet' = NoSet
        /\ lastGet' = NoGet
        /\ uaf' = (uaf \/ ~Live(infoObj[t]) \/ ~Live(infoObj[src]))
        /\ UNCHANGED <<dbObj, hDb, ndefault, nsetops, ngets, detected, panicked, exceptDb>>

(***************************************************************************)
(* Info::set_seq(&self, seq, seq_str): CString::new(s).expect(..) panics   *)
(* on a string with a NUL byte; otherwise chafa_term_info_set_seq is       *)
(* called, and Err is returned when it set the error.                      *)
(***************************************************************************)
Info_set_seq ==
    \E t \in InfoIds, k \in Kinds, s \in TemplateIds \cup {"None"} :
        LET nul == s # "None" /\ Template[s].nul
            r == chafa_term_info_set_seq(infoObj[t], k, s)
            replaced == ~nul /\ r.ok
        IN  /\ hInfo[t] > 0
            /\ nsetops < MaxSetOps
            /\ nsetops' = nsetops + 1
            /\ infoObj' = IF nul THEN infoObj ELSE [infoObj EXCEPT ![t] = r.info]
            /\ panicked' = (panicked \/ nul)
            /\ lastSet' = [made |-> TRUE, info |-> t, kind |-> k, template |-> s,
                           outcome |-> IF nul THEN "panic" ELSE IF r.ok THEN "ok" ELSE "err",
                           before |-> infoObj[t]]
            /\ lastGet' = NoGet
            /\ lastMerge' = NoMerge
            /\ uaf' = (uaf \/ ~Live(infoObj[t]) \/ (replaced /\ infoObj[t].freed[k]))
            /\ UNCHANGED <<dbObj, hDb, ndefault, hInfo, ngets, detected, exceptDb>>

\* Info::set_inherit_seq(&self, seq, inherit)
Info_set_inherit_seq ==
    \E t \in InfoIds, k \in Kinds, inherit \in BOOLEAN :
        /\ hInfo[t] > 0
        /\ nsetops < MaxSetOps
        /\ nsetops' = nsetops + 1
        /\ infoObj' = [infoObj EXCEPT ![t].inherit[k] = inherit]
        /\ lastSet' = NoSet
        /\ lastGet' = NoGet
        /\ uaf' = (uaf \/ ~Live(infoObj[t]))
        /\ UNCHANGED <<dbObj, hDb, ndefault, hInfo, ngets, lastMerge, detected, panicked,
                       exceptDb>>

(***************************************************************************)
(* Info::get_seq(&self, seq): chafa_term_info_get_seq returns the pointer  *)
(* to the string the description holds; the wrapper copies it into a       *)
(* String and then g_frees it.  The description goes on pointing to the    *)
(* freed string, whose bytes the allocator may overwrite (left); a second  *)
(* call reads those bytes and frees the string again.                      *)
(***************************************************************************)
Info_get_seq ==
    \E t \in InfoIds, k \in Kinds, left \in SeqVals :
        LET v == infoObj[t].seq[k] IN
        /\ hInfo[t] > 0
        /\ left = IF v = "absent" THEN "absent" ELSE left
        /\ left \in {v, "garbage"}
        /\ ngets < MaxGets
        /\ ngets' = ngets + 1
        /\ infoObj' = [infoObj EXCEPT ![t].seq[k] = left,
                                      ![t].freed[k] = (v # "absent"),
                                      ![t].got[k] = v]
        /\ lastGet' = [made |-> TRUE, info |-> t, kind |-> k, val |-> v]
        /\ uaf' = (uaf \/ ~Live(infoObj[t]) \/ infoObj[t].freed[k])
        /\ UNCHANGED <<dbObj, hDb, ndefault, hInfo, nsetops, lastMerge, lastSet, detected,
                       panicked, exceptDb>>

\* Info::have_seq(&self, seq): whether the description holds a sequence
Info_have_seq(info, k) == info.seq[k] # "absent"

(***************************************************************************)
(* Info::set_name, set_quirks, set_safe_symbol_tags.  set_name panics on a *)
(* name with a NUL byte (CString::new(name).expect(..)).                   *)
(***************************************************************************)
Info_set_name ==
    \E t \in InfoIds, name \in Names \cup {"nul"} :
        /\ hInfo[t] > 0
        /\ nsetops < MaxSetOps
        /\ nsetops' = nsetops + 1
        /\ infoObj' = IF name = "nul" THEN infoObj ELSE [infoObj EXCEPT ![t].name = name]
        /\ panicked' = (panicked \/ name = "nul")
        /\ uaf' = (uaf \/ ~Live(infoObj[t]))
        /\ UNCHANGED <<dbObj, hDb, ndefault, hInfo, ngets, lastMerge, lastSet, lastGet, detected,
                       exceptDb>>

Info_set_quirks ==
    \E t \in InfoIds, quirks \in Vals :
        /\ hInfo[t] > 0
        /\ nsetops < MaxSetOps
        /\ nsetops' = nsetops + 1
        /\ infoObj' = [infoObj EXCEPT ![t].quirks = quirks]
        /\ uaf' = (uaf \/ ~Live(infoObj[t]))
        /\ UNCHANGED <<dbObj, hDb, ndefault, hInfo, ngets, lastMerge, lastSet, lastGet, detected,
                       panicked, exceptDb>>

Info_set_safe_symbol_tags ==
    \E t \in InfoIds, tags \in Vals :
        /\ hInfo[t] > 0
        /\ nsetops < MaxSetOps
        /\ nsetops' = nsetops + 1
        /\ infoObj' = [infoObj EXCEPT ![t].tags = tags]
        /\ uaf' = (uaf \/ ~Live(infoObj[t]))
        /\ UNCHANGED <<dbObj, hDb, ndefault, hInfo, ngets, lastMerge, lastSet, lastGet, detected,
                       panicked, exceptDb>>

(***************************************************************************)
(* Canvas geometry.  chafa_calc_canvas_geometry takes the maximum size of  *)
(* the canvas in *dest_width_inout and *dest_height_inout (negative: not   *)
(* given) and replaces it by the calculated size.  The font ratio is the   *)
(* fraction rn / rd.                                                       *)
(***************************************************************************)
Min(a, b) == IF a < b THEN a ELSE b

\* the size of the source in cells at its natural size
NaturalW(sw) == sw
NaturalH(sh, rn, rd) == (sh * rn) \div rd

\* the height that keeps the source's aspect at width w, and the width at height h
AspectH(sw, sh, rn, rd, w) == (w * sh * rn) \div (sw * rd)
AspectW(sw, sh, rn, rd, h) == (h * sw * rd) \div (sh * rn)

\* a calculation that gives an empty source one cell
chafa_calc_canvas_geometry_one_cell(sw, sh, dw, dh, rn, rd, zoom, stretch) ==
    IF sw = 0 \/ sh = 0 THEN <<1, 1>> ELSE <<0, 0>>

chafa_calc_canvas_geometry(sw, sh, dw, dh, rn, rd, zoom, stretch) ==
    IF sw = 0 \/ sh = 0 THEN <<0, 0>>
    ELSE LET nw == NaturalW(sw)
             nh == NaturalH(sh, rn, rd)
             \* the box to fit in: the given one, cut to the natural size unless zooming
             bw == IF dw < 0 THEN (IF zoom /\ dh >= 0 THEN AspectW(sw, sh, rn, rd, dh) ELSE nw)
                   ELSE IF zoom THEN dw ELSE Min(dw, nw)
             bh == IF dh < 0 THEN (IF zoom /\ dw >= 0 THEN AspectH(sw, sh, rn, rd, dw) ELSE nh)
                   ELSE IF zoom THEN dh ELSE Min(dh, nh)
         IN  IF stretch THEN <<bw, bh>>
             ELSE IF AspectH(sw, sh, rn, rd, bw) <= bh
                  THEN <<bw, AspectH(sw, sh, rn, rd, bw)>>
                  ELSE <<AspectW(sw, sh, rn, rd, bh), bh>>

SrcSizes == {0, 1, 50, 100}
FontRatios == {<<1, 2>>, <<1, 1>>}
NoGeom == [made |-> FALSE, sw |-> 0, sh |-> 0, ratio |-> <<1, 2>>, zoom |-> FALSE,
           stretch |-> FALSE, w |-> 0, h |-> 0]

InitGeom == geom = NoGeom

(***************************************************************************)
(* calc_canvas_geometry(src_width, src_height, font_ratio, zoom, stretch): *)
(* width and height are initialised to 0 and passed as the in/out maximum  *)
(* size; the values they hold after the call are returned.                 *)
(***************************************************************************)
calc_canvas_geometry ==
    \E sw \in SrcSizes, sh \in SrcSizes, ratio \in FontRatios, zoom \in BOOLEAN,
       stretch \in BOOLEAN :
        LET width == 0
            height == 0
            r == chafa_calc_canvas_geometry(sw, sh, width, height, ratio[1], ratio[2],
                                            zoom, stretch)
        IN  /\ geom' = [made |-> TRUE, sw |-> sw, sh |-> sh, ratio |-> ratio, zoom |-> zoom,
                        stretch |-> stretch, w |-> r[1], h |-> r[2]]
            /\ UNCHANGED <<uaf, exceptGeom>>

(***************************************************************************)
(* Symbol maps and the selector language.  A symbol map is an ordered list *)
(* of selectors, each adding or removing the symbols of one tag; the set   *)
(* of symbols it selects is what the list yields when applied in order to  *)
(* the empty set.  Text is a sequence of one-character strings; the C      *)
(* string a pointer denotes ends before the first NUL byte.                *)
(***************************************************************************)
TagNames == {"all", "none", "block", "border", "dot", "stipple"}
TagChars ==
    [t \in TagNames |->
        CASE t = "all" -> <<"a", "l", "l">>
          [] t = "none" -> <<"n", "o", "n", "e">>
          [] t = "block" -> <<"b", "l", "o", "c", "k">>
          [] t = "border" -> <<"b", "o", "r", "d", "e", "r">>
          [] t = "dot" -> <<"d", "o", "t">>
          [] t = "stipple" -> <<"s", "t", "i", "p", "p", "l", "e">>]

\* the symbols of the model and the tags each one carries
Symbols == {"space", "full_block", "half_block", "box_line", "dotted_line", "shade"}
TagsOf ==
    [y \in Symbols |->
        CASE y = "space" -> {}
          [] y = "full_block" -> {"block"}
          [] y = "half_block" -> {"block"}
          [] y = "box_line" -> {"border"}
          [] y = "dotted_line" -> {"border", "dot"}
          [] y = "shade" -> {"stipple"}]
Matching(tag) ==
    IF tag = "all" THEN Symbols
    ELSE IF tag = "none" THEN {}
    ELSE {y \in Symbols : tag \in TagsOf[y]}

Selector(add, tag) == [add |-> add, tag |-> tag]

\* the symbols a selector list selects
RECURSIVE SelectedUpTo(_, _)
SelectedUpTo(sels, n) ==
    IF n = 0 THEN {}
    ELSE IF sels[n].add
         THEN SelectedUpTo(sels, n - 1) \cup Matching(sels[n].tag)
         ELSE SelectedUpTo(sels, n - 1) \ Matching(sels[n].tag)
Selected(sels) == SelectedUpTo(sels, Len(sels))

Separators == {",", "+", "-"}

\* length of the run of tag-name characters of s that starts at position i
RECURSIVE NameLen(_, _)
NameLen(s, i) ==
    IF i > Len(s) \/ s[i] \in Separators THEN 0 ELSE 1 + NameLen(s, i + 1)

\* the tag a word names, "?" when it names none (tag names are case-sensitive
\* keywords)
TagNamed(word) ==
    IF \E t \in TagNames : TagChars[t] = word
    THEN CHOOSE t \in TagNames : TagChars[t] = word
    ELSE "?"

(***************************************************************************)
(* The selector parser, on the C string s from position i on.  sign is the *)
(* latest explicit sign ("none" before any), cleared says that the map is  *)
(* to be emptied first (the first term came with no sign), ops is the list *)
(* of selectors parsed so far.  Nothing is applied while parsing.          *)
(***************************************************************************)
RECURSIVE ParseSelectors(_, _, _, _, _)
ParseSelectors(s, i, sign, cleared, ops) ==
    IF i > Len(s) THEN [ok |-> TRUE, cleared |-> cleared, ops |-> ops]
    ELSE IF s[i] = "," THEN ParseSelectors(s, i + 1, sign, cleared, ops)
    ELSE IF s[i] \in {"+", "-"} THEN ParseSelectors(s, i + 1, s[i], cleared, ops)
    ELSE LET n == NameLen(s, i)
             tag == TagNamed(SubSeq(s, i, i + n - 1))
             bare == sign = "none"
         IN  IF tag = "?"
             THEN [ok |-> FALSE, cleared |-> cleared, ops |-> ops]
             ELSE ParseSelectors(s, i + n, IF bare THEN "+" ELSE sign, cleared \/ bare,
                                 Append(ops, Selector(bare \/ sign = "+", tag)))

\* chafa_symbol_map_apply_selectors on a map whose selector list is sels and the
\* C string s: all of the expression is applied, or on a parse error none of it
ApplySelectors(sels, s) ==
    LET r == ParseSelectors(s, 1, "none", FALSE, <<>>)
    IN  IF r.ok
        THEN [ok |-> TRUE, sels |-> (IF r.cleared THEN <<>> ELSE sels) \o r.ops]
        ELSE [ok |-> FALSE, sels |-> sels]

\* the expressions callers pass in the model
Word(t) == TagChars[t]
PlusMinus(t) == <<"+">> \o Word(t) \o <<"-">> \o Word(t)
ExprBlockBorder == Word("block") \o <<",">> \o Word("border")
ExprRelative ==
    <<"+">> \o Word("block") \o <<",">> \o Word("border")
            \o <<"-">> \o Word("dot") \o <<",">> \o Word("stipple")
ExprBadLast == Word("block") \o <<",", "b", "o", "g", "u", "s">>
ExprBadFirst == <<"b", "o", "g", "u", "s", ",">> \o Word("block")
ExprBadPrefix == <<"+">> \o Word("block") \o <<",", "a", "l">>
Exprs ==
    {Word("none"), Word("all"), ExprBlockBorder, ExprRelative,
     ExprBadLast, ExprBadFirst, ExprBadPrefix}
        \cup {PlusMinus(t) : t \in TagNames}

(***************************************************************************)
(* What may lie in memory after the bytes of a Rust &str, up to the first  *)
(* NUL byte: nothing (a NUL follows at once), a letter, or more selector   *)
(* text.  A &str carries its length and no terminator, so which of these   *)
(* a C reader finds is not in the program's hands.                         *)
(***************************************************************************)
Tails == {<<>>, <<"l">>, <<",">> \o Word("dot"), <<"+">> \o Word("all")}

NoCall ==
    [made |-> FALSE, expr |-> <<>>, tail |-> <<>>, ok |-> TRUE, before |-> <<>>,
     prev |-> <<>>]
NoSym == [acq |-> 0, rel |-> 0, sels |-> <<>>]

InitSel ==
    /\ symObj = NoSym
    /\ hSym = 0
    /\ nsymops = 0
    /\ lastCall = NoCall

\* SymbolMap::new: a fresh, empty symbol map with one reference
SymbolMap_new ==
    /\ ~Allocated(symObj)
    /\ symObj' = [acq |-> 1, rel |-> 0, sels |-> <<>>]
    /\ hSym' = 1
    /\ lastCall' = NoCall
    /\ UNCHANGED <<nsymops, uaf, exceptSel>>

\* SymbolMap::add_by_tags and remove_by_tags, for one tag
TagOp(add, t) ==
    /\ hSym > 0
    /\ nsymops < MaxSymOps
    /\ nsymops' = nsymops + 1
    /\ symObj' = [symObj EXCEPT !.sels = Append(@, Selector(add, t))]
    /\ lastCall' = NoCall
    /\ UNCHANGED <<hSym, uaf, exceptSel>>

SymbolMap_add_by_tags == \E t \in TagNames : TagOp(TRUE, t)
SymbolMap_remove_by_tags == \E t \in TagNames : TagOp(FALSE, t)

(***************************************************************************)
(* SymbolMap::apply_selectors(&self, selectors: &str): the wrapper passes  *)
(* selectors.as_ptr() to chafa_symbol_map_apply_selectors, which reads a   *)
(* C string from that address: the bytes of selectors and then whatever    *)
(* follows them in memory up to the first NUL.  Err is returned when the   *)
(* native call set an error.                                               *)
(***************************************************************************)
SymbolMap_apply_selectors ==
    \E e \in Exprs, tail \in Tails :
        LET r == ApplySelectors(symObj.sels, e \o tail) IN
        /\ hSym > 0
        /\ nsymops < MaxSymOps
        /\ nsymops' = nsymops + 1
        /\ symObj' = [symObj EXCEPT !.sels = r.sels]
        /\ lastCall' = [made |-> TRUE, expr |-> e, tail |-> tail, ok |-> r.ok,
                        before |-> symObj.sels,
                        prev |-> IF lastCall.made THEN lastCall.expr ELSE <<>>]
        /\ UNCHANGED <<hSym, uaf, exceptSel>>

\* Drop for SymbolMap: chafa_symbol_map_unref on raw
SymbolMap_drop ==
    /\ hSym > 0
    /\ hSym' = hSym - 1
    /\ symObj' = Unref(symObj)
    /\ lastCall' = NoCall
    /\ UNCHANGED <<nsymops, uaf, exceptSel>>

(***************************************************************************)
(* Glyphs.  A Glyph is a pixel buffer of len bytes with the width, height  *)
(* and rowstride its owner says it has; all its fields are public, so any  *)
(* combination can be passed.  chafa_symbol_map_add_glyph is given the     *)
(* buffer's address and the three dimensions, never its length: it reads   *)
(* height rows of width pixels, each row rowstride bytes after the one     *)
(* before.                                                                 *)
(***************************************************************************)
PixelTypes == {"RGBA8Unassociated", "RGB8"}
BytesPerPixel == [f \in PixelTypes |-> IF f = "RGB8" THEN 3 ELSE 4]
CodePoints == {"A", "B"}
Glyph == [len : {4, 8, 16}, width : {1, 2}, height : {1, 2}, rowstride : {4, 8}]
NoGlyph == [len |-> 0, width |-> 0, height |-> 0, rowstride |-> 0]

\* the number of bytes of the buffer the native call reads
BytesRead(g, f) == (g.height - 1) * g.rowstride + g.width * BytesPerPixel[f]

NoAdd == [made |-> FALSE, code_point |-> "none", pixel_format |-> "none", glyph |-> NoGlyph,
          before |-> [p \in CodePoints |-> NoGlyph], overread |-> FALSE]

InitGlyph ==
    /\ glyphOf = [p \in CodePoints |-> NoGlyph]
    /\ lastGlyph = NoAdd

(***************************************************************************)
(* SymbolMap::add_glyph(&self, code_point, pixel_format, glyph): the       *)
(* wrapper hands the glyph's fields to the native call as they are.  The   *)
(* glyph is assigned to the code point, in place of an earlier one.        *)
(***************************************************************************)
SymbolMap_add_glyph ==
    \E p \in CodePoints, f \in PixelTypes, g \in Glyph :
        /\ hSym > 0
        /\ nsymops < MaxSymOps
        /\ nsymops' = nsymops + 1
        /\ glyphOf' = [glyphOf EXCEPT ![p] = g]
        /\ lastGlyph' = [made |-> TRUE, code_point |-> p, pixel_format |-> f, glyph |-> g,
                         before |-> glyphOf, overread |-> BytesRead(g, f) > g.len]
        /\ lastCall' = NoCall
        /\ UNCHANGED <<symObj, hSym, uaf, exceptGlyph>>

(***************************************************************************)
(* Seq::from(u32): the match of the generated enumeration has an arm for   *)
(* the number of every sequence kind and a last arm that panics.           *)
(***************************************************************************)
SeqNumbers == Kinds \cup {"CHAFA_TERM_SEQ_MAX"}
NoConv == [made |-> FALSE, value |-> "none", ok |-> TRUE]

Seq_from ==
    \E value \in SeqNumbers :
        /\ lastConv' = [made |-> TRUE, value |-> value, ok |-> value \in Kinds]
        /\ panicked' = (panicked \/ value \notin Kinds)
        /\ UNCHANGED <<cfgVars, canvasObj, uaf, chainVars, dbObj, hDb, ndefault, infoObj, hInfo,
                       nsetops, ngets, lastMerge, lastSet, lastGet, detected, selVars, geom,
                       glyphVars, paintVars, onceVars>>

(***************************************************************************)
(* Db::default called from several threads.  chafa_term_db_get_default     *)
(* guards the construction of the default database with a one-time         *)
(* initialisation: the first thread to enter constructs it, a thread that  *)
(* enters meanwhile waits, and every thread returns the one address.  Each *)
(* thread then wraps the address in an owning Db, and drops that Db later. *)
(***************************************************************************)
Threads == 1..MaxThreads

InitOnce ==
    /\ once = "uninit"
    /\ pc = [t \in Threads |-> "idle"]
    /\ ncreated = 0
    /\ lastConv = NoConv

\* a thread calls Db::default and reaches the guard
Db_default_enter ==
    \E t \in Threads :
        /\ pc[t] = "idle"
        /\ ndefault < MaxDefault
        /\ once # "running"
        /\ ndefault' = ndefault + 1
        /\ once' = IF once = "uninit" THEN "running" ELSE once
        /\ pc' = [pc EXCEPT ![t] = IF once = "uninit" THEN "construct" ELSE "wrap"]
        /\ UNCHANGED <<dbObj, hDb, infoObj, hInfo, termVars, uaf, ncreated, exceptOnce>>

\* the thread that won the guard constructs the database and opens the guard
Db_default_construct ==
    \E t \in Threads :
        /\ pc[t] = "construct"
        /\ dbObj' = [dbObj EXCEPT ![DefaultDb] = [acq |-> 1, rel |-> 0]]
        /\ ncreated' = ncreated + 1
        /\ once' = "done"
        /\ pc' = [pc EXCEPT ![t] = "wrap"]
        /\ UNCHANGED <<hDb, ndefault, infoObj, hInfo, termVars, uaf, exceptOnce>>

\* the address comes back non-null and is put in an owning Db
Db_default_return ==
    \E t \in Threads :
        /\ pc[t] = "wrap"
        /\ hDb' = [hDb EXCEPT ![DefaultDb] = @ + 1]
        /\ pc' = [pc EXCEPT ![t] = "held"]
        /\ UNCHANGED <<dbObj, ndefault, infoObj, hInfo, termVars, uaf, once, ncreated,
                       exceptOnce>>

\* the thread drops its Db: chafa_term_db_unref on the default database
Db_default_drop ==
    \E t \in Threads :
        /\ pc[t] = "held"
        /\ hDb' = [hDb EXCEPT ![DefaultDb] = @ - 1]
        /\ dbObj' = [dbObj EXCEPT ![DefaultDb] = Unref(@)]
        /\ uaf' = (uaf \/ ~Live(dbObj[DefaultDb]))
        /\ pc' = [pc EXCEPT ![t] = "idle"]
        /\ UNCHANGED <<ndefault, infoObj, hInfo, termVars, once, ncreated, exceptOnce>>

(***************************************************************************)
(* The cell grid of a canvas.  Each cell holds a character (nul in the     *)
(* right half of a double-width character) and the raw foreground and      *)
(* background colours: in truecolor mode packed RGB, in an indexed mode a  *)
(* pen of the palette, and -1 for transparency in both.  A new canvas is   *)
(* blank.                                                                  *)
(***************************************************************************)
Cols == 0..MaxX
Rows == 0..MaxY
Pos == Cols \X Rows

\* the characters of the model: a narrow letter, a double-width ideograph,
\* a combining mark (printable, zero width) and a control character
Chars == {"a", "wide", "combining", "control"}
g_unichar_isprint(c) == c \in {"space", "a", "wide", "combining"}
g_unichar_iszerowidth(c) == c = "combining"
g_unichar_iswide(c) == c = "wide"

BlankCell == [c |-> "space", fg |-> -1, bg |-> -1]
BlankGrid == [p \in Pos |-> BlankCell]

\* packed RGB colours callers pass: transparent, one colour that is a pen of
\* the palette (0xFF0000), one that is not (0x123456)
Rgbs == {-1, 16711680, 1193046}
\* the pens of the model and their colours (pen 0 black, pen 9 bright red)
Pens == {0, 9}
Palette == [p \in Pens |-> IF p = 0 THEN 0 ELSE 16711680]

TrueColor == 0
Indexed256 == 1
CanvasMode(cv) == cfgObj[canvasObj[cv].cfg].val["canvas_mode"]

Red(rgb) == rgb \div 65536
Green(rgb) == (rgb \div 256) % 256
Blue(rgb) == rgb % 256
Square(n) == n * n
ColorDiff(a, b) == Square(Red(a) - Red(b)) + Square(Green(a) - Green(b)) + Square(Blue(a) - Blue(b))

\* the palette lookup of an indexed mode: the pen whose colour is nearest
NearestPen(rgb) ==
    CHOOSE p \in Pens :
        \A q \in Pens :
            \/ ColorDiff(Palette[p], rgb) < ColorDiff(Palette[q], rgb)
            \/ ColorDiff(Palette[p], rgb) = ColorDiff(Palette[q], rgb) /\ p <= q

\* ToRaw with the palette lookup made in every mode
ToRawAlwaysPen(mode, rgb) == IF rgb < 0 THEN -1 ELSE NearestPen(rgb)

\* from a packed colour to the raw value of the mode, and back
ToRaw(mode, rgb) == IF rgb < 0 THEN -1 ELSE IF mode = TrueColor THEN rgb ELSE NearestPen(rgb)
FromRaw(mode, raw) == IF raw < 0 THEN -1 ELSE IF mode = TrueColor THEN raw ELSE Palette[raw]

\* the raw values that are valid in a mode
RawVals(mode) == IF mode = TrueColor THEN Rgbs ELSE Pens \cup {-1}

(***************************************************************************)
(* chafa_canvas_set_char_at: nothing is done outside the grid, for a       *)
(* character that is not printable or has zero width, and for a wide       *)
(* character in the last column.  Otherwise the character is stored; a     *)
(* wide one makes the cell to its right nul with the same colours.  A half *)
(* of a wide character that loses its other half becomes a space.          *)
(***************************************************************************)
CharWidth(c) == IF g_unichar_iswide(c) THEN 2 ELSE 1

chafa_canvas_set_char_at_unchecked(grid, x, y, c) ==
    [cells |-> CharWidth(c),
     grid |-> [p \in Pos |-> IF p = <<x, y>> THEN [grid[p] EXCEPT !.c = c] ELSE grid[p]]]

chafa_canvas_set_char_at(grid, x, y, c) ==
    IF \/ <<x, y>> \notin Pos
       \/ ~g_unichar_isprint(c)
       \/ g_unichar_iszerowidth(c)
       \/ x + CharWidth(c) > MaxX + 1
    THEN [cells |-> 0, grid |-> grid]
    ELSE LET w == CharWidth(c)
             leftWide == x > 0 /\ g_unichar_iswide(grid[<<x - 1, y>>].c)
             rightNul == x + w <= MaxX /\ grid[<<x + w, y>>].c = "nul"
         IN  [cells |-> w,
              grid |-> [p \in Pos |->
                  IF p = <<x, y>> THEN [grid[p] EXCEPT !.c = c]
                  ELSE IF w = 2 /\ p = <<x + 1, y>>
                       THEN [c |-> "nul", fg |-> grid[<<x, y>>].fg, bg |-> grid[<<x, y>>].bg]
                  ELSE IF leftWide /\ p = <<x - 1, y>> THEN [grid[p] EXCEPT !.c = "space"]
                  ELSE IF rightNul /\ p = <<x + w, y>> THEN [grid[p] EXCEPT !.c = "space"]
                  ELSE grid[p]]]

(***************************************************************************)
(* chafa_canvas_set_raw_colors_at stores the two raw values in the cell;   *)
(* chafa_canvas_set_colors_at converts packed colours to raw values first  *)
(* (a palette lookup in an indexed mode).  Both store the same colours in  *)
(* the other half of a double-width character.                             *)
(***************************************************************************)
OtherHalf(grid, x, y) ==
    {p \in Pos :
        \/ p = <<x + 1, y>> /\ grid[p].c = "nul"
        \/ p = <<x - 1, y>> /\ grid[<<x, y>>].c = "nul"}

chafa_canvas_set_raw_colors_at_one_cell(grid, x, y, fg, bg) ==
    [p \in Pos |->
        IF p = <<x, y>>
        THEN [grid[p] EXCEPT !.fg = IF fg < 0 THEN -1 ELSE fg, !.bg = IF bg < 0 THEN -1 ELSE bg]
        ELSE grid[p]]

chafa_canvas_set_raw_colors_at(grid, x, y, fg, bg) ==
    [p \in Pos |->
        IF p = <<x, y>> \/ p \in OtherHalf(grid, x, y)
        THEN [grid[p] EXCEPT !.fg = IF fg < 0 THEN -1 ELSE fg, !.bg = IF bg < 0 THEN -1 ELSE bg]
        ELSE grid[p]]

chafa_canvas_set_colors_at(mode, grid, x, y, fg, bg) ==
    chafa_canvas_set_raw_colors_at(grid, x, y, ToRaw(mode, fg), ToRaw(mode, bg))

NoPut == [made |-> FALSE, canvas |-> 0, c |-> "none", x |-> 0, y |-> 0, cells |-> 0,
          before |-> BlankGrid]
NoWide == [made |-> FALSE, canvas |-> 0, x |-> 0, y |-> 0]
NoPaint == [made |-> FALSE, raw |-> FALSE, canvas |-> 0, x |-> 0, y |-> 0, fg |-> -1, bg |-> -1]

\* Canvas::get_char_at, get_colors_at and get_raw_colors_at
Canvas_get_char_at(cv, x, y) == cells[cv][<<x, y>>].c
Canvas_get_raw_colors_at(cv, x, y) == <<cells[cv][<<x, y>>].fg, cells[cv][<<x, y>>].bg>>
Canvas_get_colors_at(cv, x, y) ==
    <<FromRaw(CanvasMode(cv), cells[cv][<<x, y>>].fg),
      FromRaw(CanvasMode(cv), cells[cv][<<x, y>>].bg)>>

(***************************************************************************)
(* Text output.  chafa_canvas_print writes the grid row by row into a      *)
(* GString: for every cell that holds a character, the character with its  *)
(* colours in the sequences of the terminal description (those of the      *)
(* fallback when the description is NULL), and a newline after every row   *)
(* but the last.  A piece of the text is a record; Newline and Garbage     *)
(* (the bytes found in memory that was freed) are pieces as well.          *)
(***************************************************************************)
Piece(cell, mode, seq) ==
    [c |-> cell.c, fg |-> FromRaw(mode, cell.fg), bg |-> FromRaw(mode, cell.bg), seq |-> seq]
Newline == [c |-> "newline", fg |-> -1, bg |-> -1, seq |-> "none"]
Garbage == [c |-> "garbage", fg |-> -1, bg |-> -1, seq |-> "none"]

RECURSIVE RowText(_, _, _, _, _)
RowText(grid, mode, seq, y, x) ==
    IF x > MaxX THEN <<>>
    ELSE (IF grid[<<x, y>>].c = "nul" THEN <<>> ELSE <<Piece(grid[<<x, y>>], mode, seq)>>)
         \o RowText(grid, mode, seq, y, x + 1)

RECURSIVE RowsFrom(_, _, _, _)
RowsFrom(grid, mode, seq, y) ==
    IF y > MaxY THEN <<>>
    ELSE <<RowText(grid, mode, seq, y, 0)>> \o RowsFrom(grid, mode, seq, y + 1)

RECURSIVE Joined(_, _)
Joined(rows, i) ==
    IF i > Len(rows) THEN <<>>
    ELSE rows[i] \o (IF i < Len(rows) THEN <<Newline>> ELSE <<>>) \o Joined(rows, i + 1)

\* chafa_canvas_print_rows_strv: one string per row, no newlines
chafa_canvas_print_rows_strv(grid, mode, seq) == RowsFrom(grid, mode, seq, 0)
\* chafa_canvas_print: the rows in one string
chafa_canvas_print(grid, mode, seq) == Joined(RowsFrom(grid, mode, seq, 0), 1)

\* the colour sequence of terminal description t (0: None, the fallback), as
\* the native call finds it: seen is what lies in the description's memory
TermSeq(t) == IF t = 0 THEN "fallback" ELSE infoObj[t].seq["SetColorFgDirect"]

NoStr == [made |-> FALSE, op |-> "none", canvas |-> 0, term |-> 0, out |-> <<>>,
          after_free |-> FALSE, frees |-> 0, before |-> BlankGrid, config |-> DefaultVal]

InitPrint ==
    /\ lastStr = NoStr
    /\ prevStr = NoStr

InitPaint ==
    /\ cells = [cv \in CanvasIds |-> BlankGrid]
    /\ ncellops = 0
    /\ lastPut = NoPut
    /\ lastWide = NoWide
    /\ lastPaint = NoPaint

(***************************************************************************)
(* Canvas::set_char_at(&self, c, x, y): the number of cells the native     *)
(* call reports is returned as it is.                                      *)
(***************************************************************************)
Canvas_set_char_at ==
    \E cv \in CanvasIds, c \in Chars, x \in 0..(MaxX + 1), y \in Rows :
        LET r == chafa_canvas_set_char_at(cells[cv], x, y, c) IN
        /\ Live(canvasObj[cv])
        /\ ncellops < MaxCellOps
        /\ ncellops' = ncellops + 1
        /\ cells' = [cells EXCEPT ![cv] = r.grid]
        /\ lastPut' = [made |-> TRUE, canvas |-> cv, c |-> c, x |-> x, y |-> y,
                       cells |-> r.cells, before |-> cells[cv]]
        /\ lastWide' = IF r.cells = 2 THEN [made |-> TRUE, canvas |-> cv, x |-> x, y |-> y]
                       ELSE IF r.cells = 1 THEN NoWide
                       ELSE lastWide
        /\ lastPaint' = NoPaint
        /\ lastStr' = NoStr
        /\ prevStr' = NoStr
        /\ UNCHANGED <<canvasObj, dbVars, uaf, exceptPaint>>

\* Canvas::set_colors_at(&self, x, y, fg, bg), with packed colours
Canvas_set_colors_at ==
    \E cv \in CanvasIds, x \in Cols, y \in Rows, fg \in Rgbs, bg \in Rgbs :
        /\ Live(canvasObj[cv])
        /\ ncellops < MaxCellOps
        /\ ncellops' = ncellops + 1
        /\ cells' = [cells EXCEPT ![cv] =
                        chafa_canvas_set_colors_at(CanvasMode(cv), @, x, y, fg, bg)]
        /\ lastPaint' = [made |-> TRUE, raw |-> FALSE, canvas |-> cv, x |-> x, y |-> y,
                         fg |-> fg, bg |-> bg]
        /\ lastStr' = NoStr
        /\ prevStr' = NoStr
        /\ lastPut' = NoPut
        /\ UNCHANGED <<canvasObj, dbVars, uaf, lastWide, exceptPaint>>

\* Canvas::set_raw_colors_at(&self, x, y, fg, bg), with raw values of the mode
Canvas_set_raw_colors_at ==
    \E cv \in CanvasIds, x \in Cols, y \in Rows :
        /\ Live(canvasObj[cv])
        /\ \E fg \in RawVals(CanvasMode(cv)), bg \in RawVals(CanvasMode(cv)) :
            /\ ncellops < MaxCellOps
            /\ ncellops' = ncellops + 1
            /\ cells' = [cells EXCEPT ![cv] = chafa_canvas_set_raw_colors_at(@, x, y, fg, bg)]
            /\ lastPaint' = [made |-> TRUE, raw |-> TRUE, canvas |-> cv, x |-> x, y |-> y,
                             fg |-> fg, bg |-> bg]
            /\ lastStr' = NoStr
            /\ prevStr' = NoStr
            /\ lastPut' = NoPut
            /\ UNCHANGED <<canvasObj, dbVars, uaf, lastWide, exceptPaint>>

(***************************************************************************)
(* Canvas::create_string(&self, term_info: Option<Info>).  The Info is     *)
(* moved into the `if let` and dropped at its closing brace, before the    *)
(* native call is given its raw: when that was the last reference, the     *)
(* native call reads a description that was freed (seen).  The wrapper     *)
(* then takes a &CStr to the GString's bytes, frees the GString together   *)
(* with its bytes (g_string_free(g_str, 1)), and only then copies the      *)
(* bytes into the String it returns (read).                                *)
(***************************************************************************)
Canvas_create_string ==
    \E cv \in CanvasIds, t \in {0} \cup InfoIds, seen \in {"stored", "garbage"},
       read \in {"text", "garbage"} :
        LET gone == t # 0 /\ LastRef(infoObj[t])
            seq == IF seen = "garbage" THEN "garbage" ELSE TermSeq(t)
            text == chafa_canvas_print(cells[cv], CanvasMode(cv), seq)
        IN  /\ Live(canvasObj[cv])
            /\ t # 0 => hInfo[t] > 0
            /\ seen = "garbage" => gone
            /\ hInfo' = IF t = 0 THEN hInfo ELSE [hInfo EXCEPT ![t] = @ - 1]
            /\ infoObj' = IF t = 0 THEN infoObj ELSE [infoObj EXCEPT ![t] = Unref(@)]
            /\ uaf' = TRUE
            /\ prevStr' = lastStr
            /\ lastStr' = [made |-> TRUE, op |-> "create_string", canvas |-> cv, term |-> t,
                           out |-> IF read = "garbage" THEN <<Garbage>> ELSE text,
                           after_free |-> TRUE, frees |-> 1,
                           before |-> cells[cv], config |-> cfgObj[canvasObj[cv].cfg].val]
            /\ UNCHANGED <<canvasObj, dbObj, hDb, ndefault, termVars, cells, ncellops, lastPut,
                           lastWide, lastPaint, exceptPaint>>

(***************************************************************************)
(* Canvas::create_string_rows(&self, term_info: Option<Info>): the Info is *)
(* dropped early in the same way.  Every string of the array is copied     *)
(* into a String before g_strfreev frees the array and its strings.  The   *)
(* rows are kept here as the one sequence of their pieces.                 *)
(***************************************************************************)
Canvas_create_string_rows ==
    \E cv \in CanvasIds, t \in {0} \cup InfoIds, seen \in {"stored", "garbage"} :
        LET gone == t # 0 /\ LastRef(infoObj[t])
            seq == IF seen = "garbage" THEN "garbage" ELSE TermSeq(t)
            rows == chafa_canvas_print_rows_strv(cells[cv], CanvasMode(cv), seq)
        IN  /\ Live(canvasObj[cv])
            /\ t # 0 => hInfo[t] > 0
            /\ seen = "garbage" => gone
            /\ hInfo' = IF t = 0 THEN hInfo ELSE [hInfo EXCEPT ![t] = @ - 1]
            /\ infoObj' = IF t = 0 THEN infoObj ELSE [infoObj EXCEPT ![t] = Unref(@)]
            /\ uaf' = (uaf \/ gone)
            /\ prevStr' = lastStr
            /\ lastStr' = [made |-> TRUE, op |-> "create_string_rows", canvas |-> cv, term |-> t,
                           out |-> rows,
                           after_free |-> FALSE, frees |-> 1,
                           before |-> cells[cv], config |-> cfgObj[canvasObj[cv].cfg].val]
            /\ UNCHANGED <<canvasObj, dbObj, hDb, ndefault, termVars, cells, ncellops, lastPut,
                           lastWide, lastPaint, exceptPaint>>

NextConfig ==
    \/ Config_new
    \/ Config_set_geometry
    \/ Config_set_cell_geometry
    \/ Config_set_pixel_mode
    \/ Config_set_canvas_mode
    \/ Config_set_color_extractor
    \/ Config_set_color_space
    \/ Config_set_preprocessing_enabled
    \/ Config_drop
    \/ Canvas_new
    \/ Canvas_config
    \/ Canvas_drop

Init ==
    /\ InitCfg /\ InitChain /\ InitDb /\ InitSel /\ InitGeom
    /\ InitGlyph /\ InitPaint /\ InitPrint /\ InitOnce

SpecConfig == Init /\ [][NextConfig]_vars

NextChain ==
    \/ Config_new
    \/ Canvas_new
    \/ Canvas_drop
    \/ Frame_new
    \/ Frame_new_steal
    \/ Frame_drop
    \/ Image_new
    \/ Image_set_frame
    \/ Image_drop
    \/ Placement_new
    \/ Placement_drop
    \/ Canvas_set_placement

SpecChain == Init /\ [][NextChain]_vars

NextDb ==
    \/ Db_new
    \/ Db_default
    \/ Db_drop
    \/ Db_detect
    \/ Db_get_fallback_info
    \/ Info_drop

SpecDb == Init /\ [][NextDb]_vars

NextInfo ==
    \/ Info_new
    \/ Info_set_seq
    \/ Info_set_inherit_seq
    \/ Info_chain
    \/ Info_supplement

SpecInfo == Init /\ [][NextInfo]_vars

NextSeq ==
    \/ Info_new
    \/ Info_set_seq
    \/ Info_get_seq
    \/ Info_chain

SpecSeq == Init /\ [][NextSeq]_vars

NextMeta ==
    \/ Info_new
    \/ Info_set_name
    \/ Info_set_quirks
    \/ Info_set_safe_symbol_tags
    \/ Info_chain
    \/ Info_drop

SpecMeta == Init /\ [][NextMeta]_vars

NextGeom == calc_canvas_geometry

SpecGeom == Init /\ [][NextGeom]_vars

NextSel ==
    \/ SymbolMap_new
    \/ SymbolMap_add_by_tags
    \/ SymbolMap_remove_by_tags
    \/ SymbolMap_apply_selectors
    \/ SymbolMap_drop

SpecSel == Init /\ [][NextSel]_vars

(***************************************************************************)
(* The state in which the cells of a canvas are worked on: a Config was    *)
(* made, its canvas mode was set to m, Canvas::new copied it for canvas 1, *)
(* and the Config was dropped.                                             *)
(***************************************************************************)
InitPainted ==
    /\ \E m \in Vals :
           LET val == [DefaultVal EXCEPT !["canvas_mode"] = m] IN
           /\ cfgObj = [k \in CfgIds |->
                          IF k = 1 THEN [acq |-> 1, rel |-> 1, val |-> val, owner |-> "rust"]
                          ELSE IF k = 2 THEN [acq |-> 1, rel |-> 0, val |-> val, owner |-> "canvas"]
                          ELSE NoCfg]
           /\ snap = [c \in CanvasIds |-> IF c = 1 THEN [val |-> val, src |-> 1]
                                          ELSE [val |-> DefaultVal, src |-> 0]]
           /\ nsets = m
    /\ hCfg = [k \in CfgIds |-> 0]
    /\ npeeks = 0
    /\ canvasObj = [c \in CanvasIds |->
                      IF c = 1 THEN [acq |-> 1, rel |-> 0, cfg |-> 2, placement |-> 0,
                                     peeked |-> FALSE]
                      ELSE NoCanvas]
    /\ uaf = FALSE
    /\ InitChain /\ InitDb /\ InitSel /\ InitGeom
    /\ InitGlyph /\ InitPaint /\ InitPrint /\ InitOnce

NextGlyph ==
    \/ SymbolMap_new
    \/ SymbolMap_add_glyph
    \/ SymbolMap_drop

SpecGlyph == Init /\ [][NextGlyph]_vars

NextFatal ==
    \/ Info_new
    \/ Info_set_name
    \/ Info_set_seq
    \/ Seq_from
    \/ Info_drop

SpecFatal == Init /\ [][NextFatal]_vars

NextOnce ==
    \/ Db_default_enter
    \/ Db_default_construct
    \/ Db_default_return
    \/ Db_default_drop
    \/ Db_get_fallback_info
    \/ Info_drop

SpecOnce == Init /\ [][NextOnce]_vars

NextCells ==
    \/ Canvas_set_char_at
    \/ Canvas_set_colors_at
    \/ Canvas_set_raw_colors_at

SpecCells == InitPainted /\ [][NextCells]_vars

NextPrint ==
    \/ Info_new
    \/ Canvas_set_char_at
    \/ Canvas_create_string
    \/ Canvas_create_string_rows

SpecPrint == InitPainted /\ [][NextPrint]_vars



(***************************************************************************)
(* Who refers to what.  A native object is held by the Rust values whose   *)
(* raw is its address and by the native objects that store its address.    *)
(***************************************************************************)
CanvasCfg(c) == cfgObj[canvasObj[c].cfg]
PlacementHolders(p) ==
    hPlacement[p] + Cardinality({c \in CanvasIds : Live(canvasObj[c]) /\ canvasObj[c].placement = p})
PlacementHeld(p) == PlacementHolders(p) > 0
ImageHeld(i) ==
    hImage[i] > 0 \/ \E p \in PlacementIds : PlacementHeld(p) /\ placementObj[p].image = i
FrameHeld(f) ==
    hFrame[f] > 0 \/ \E i \in ImageIds : ImageHeld(i) /\ imageObj[i].frame = f

C2_PeekedConfigReadOnly ==
    \A c \in CanvasIds :
        (Live(canvasObj[c]) /\ Live(CanvasCfg(c))) =>
            \A f \in Fields : Config_get(canvasObj[c].cfg, f) = snap[c].val[f]

(***************************************************************************)
(* C3. The canvas's configuration copy is released by the destruction of   *)
(* the canvas and by nothing else: while the canvas is alive the copy is   *)
(* allocated and has never been released, and it is never released more    *)
(* often than references to it were acquired.                              *)
(***************************************************************************)
C3_ConfigReleasedByCanvasOnly ==
    \A c \in CanvasIds :
        Allocated(canvasObj[c]) =>
            /\ Live(canvasObj[c]) => (Live(CanvasCfg(c)) /\ CanvasCfg(c).rel = 0)
            /\ CanvasCfg(c).rel <= CanvasCfg(c).acq

(***************************************************************************)
(* C4. The process-wide default database is never released by a caller:    *)
(* once built it stays alive, with no release of it ever made, whatever    *)
(* Db values were obtained from Db::default and dropped.                   *)
(***************************************************************************)
C4_DefaultDbNeverReleased ==
    Allocated(dbObj[DefaultDb]) =>
        (Live(dbObj[DefaultDb]) /\ dbObj[DefaultDb].rel = 0)

(***************************************************************************)
(* C5. A frame's pixel memory is freed exactly once, and only after the    *)
(* last of its holders (the Frame value, an image, through it a placement  *)
(* and a canvas) has let go of it: it is not freed while held, it is freed *)
(* once nobody holds it, and it is never freed twice.                      *)
(***************************************************************************)
C5_FramePixelsFreedOnce ==
    \A f \in FrameIds :
        Allocated(frameObj[f]) =>
            /\ frameObj[f].pixfrees <= 1
            /\ FrameHeld(f) => (frameObj[f].pixfrees = 0 /\ Live(frameObj[f]))
            /\ ~FrameHeld(f) => frameObj[f].pixfrees = 1

\* a frame that went through an image and a placement onto a canvas, was kept
\* alive by them alone, and was freed when the canvas was dropped
C5_Witness ==
    \E f \in FrameIds, c \in CanvasIds :
        /\ Released(canvasObj[c])
        /\ canvasObj[c].placement # 0
        /\ placementObj[canvasObj[c].placement].image # 0
        /\ imageObj[placementObj[canvasObj[c].placement].image].frame = f
        /\ frameObj[f].acq = 2
        /\ frameObj[f].pixfrees = 1

Parsed(e) == ParseSelectors(e, 1, "none", FALSE, <<>>)
Malformed(e) == ~Parsed(e).ok
Signed(e) == e[1] \in {"+", "-"}

\* C7: apply_selectors is atomic on failure: when the expression passed is
\* malformed or names an unknown tag anywhere, the call returns Err and the
\* symbol map is the same as before the call, also when valid terms precede
\* the bad one.
C7_ApplySelectorsAtomicOnFailure ==
    (lastCall.made /\ Malformed(lastCall.expr))
        => (~lastCall.ok /\ symObj.sels = lastCall.before)

\* C8: apply_selectors with an expression that starts with neither '+' nor '-'
\* clears the map and then adds its terms, so the result does not depend on the
\* map's prior contents; with an expression that starts with a sign the map is
\* not cleared and the terms are applied to the current set.
C8_BareClearsSignedIsRelative ==
    (lastCall.made /\ ~Malformed(lastCall.expr))
        => /\ lastCall.ok
           /\ symObj.sels = IF Signed(lastCall.expr)
                            THEN lastCall.before \o Parsed(lastCall.expr).ops
                            ELSE Parsed(lastCall.expr).ops

\* C9: the sign persists until changed: "+block,border-dot,stipple" adds the
\* block and border symbols to the current set and removes the dot and stipple
\* symbols from it.
C9_SignPersistsUntilChanged ==
    (lastCall.made /\ lastCall.expr = ExprRelative)
        => /\ lastCall.ok
           /\ Selected(symObj.sels) =
                  ((Selected(lastCall.before) \cup Matching("block") \cup Matching("border"))
                       \ Matching("dot")) \ Matching("stipple")

\* C10: applying "none" and then "all" yields the universal set, and applying
\* "+a-a" for a valid tag a to an empty map yields the empty set.
C10_NoneAllUniversalPlusMinusEmpty ==
    /\ (lastCall.made /\ lastCall.prev = Word("none") /\ lastCall.expr = Word("all"))
           => Selected(symObj.sels) = Symbols
    /\ \A t \in TagNames :
           (lastCall.made /\ lastCall.expr = PlusMinus(t) /\ Selected(lastCall.before) = {})
               => Selected(symObj.sels) = {}

\* the latest merge, when it was a chain, and the description it returned
Chained == lastMerge.op = "chain"
Supplemented == lastMerge.op = "supplement"
Merged == infoObj[lastMerge.result]

\* C11: Info::chain(outer, inner), for every kind that inner marks as
\* inherited: if the inner or the outer sequence is absent the result holds the
\* outer sequence, otherwise it holds the inner sequence.
C11_ChainInheritedPicksOuterIfEitherAbsent ==
    Chained =>
        \A k \in Kinds :
            lastMerge.inner.inherit[k] =>
                Merged.seq[k] =
                    IF lastMerge.inner.seq[k] = "absent" \/ lastMerge.outer.seq[k] = "absent"
                    THEN lastMerge.outer.seq[k]
                    ELSE lastMerge.inner.seq[k]

\* a chain of two descriptions that both define an inherited kind, differently
C11_Witness ==
    /\ Chained
    /\ \E k \in Kinds :
           /\ lastMerge.inner.inherit[k]
           /\ lastMerge.inner.seq[k] # "absent"
           /\ lastMerge.outer.seq[k] # "absent"
           /\ lastMerge.inner.seq[k] # lastMerge.outer.seq[k]
           /\ Merged.seq[k] = lastMerge.inner.seq[k]

\* C12 as stated: for every kind that inner marks as inheritable, an absent
\* value on one side falls back to whichever side is present: the result's
\* sequence is absent only if it is absent in both outer and inner.
C12_ChainAbsentOnlyIfBothAbsent ==
    Chained =>
        \A k \in Kinds :
            (lastMerge.inner.inherit[k] /\ Merged.seq[k] = "absent") =>
                (lastMerge.inner.seq[k] = "absent" /\ lastMerge.outer.seq[k] = "absent")

\* C12, amended: for every kind that inner marks as inheritable, the result's
\* sequence is absent exactly when outer's is: an absent inner sequence falls
\* back to outer's, and a present inner sequence does not make up for an
\* absent outer one.
C12_ChainAbsentIffOuterAbsent ==
    Chained =>
        \A k \in Kinds :
            lastMerge.inner.inherit[k] =>
                /\ (Merged.seq[k] = "absent") <=> (lastMerge.outer.seq[k] = "absent")
                /\ lastMerge.inner.seq[k] = "absent" => Merged.seq[k] = lastMerge.outer.seq[k]

\* a chain in which inner defines an inherited kind that outer lacks
C12_Witness ==
    /\ Chained
    /\ \E k \in Kinds :
           /\ lastMerge.inner.inherit[k]
           /\ lastMerge.inner.seq[k] # "absent"
           /\ lastMerge.outer.seq[k] = "absent"
           /\ Merged.seq[k] = "absent"

\* C13: Info::chain(outer, inner), for every kind that inner marks as not
\* inheritable: the result takes inner's value whatever outer holds, so an
\* absent inner sequence gives an absent result even if outer defines the kind.
C13_ChainNotInheritedTakesInner ==
    Chained =>
        \A k \in Kinds :
            ~lastMerge.inner.inherit[k] => Merged.seq[k] = lastMerge.inner.seq[k]

\* a chain in which outer defines a kind that inner lacks and does not inherit
C13_Witness ==
    /\ Chained
    /\ \E k \in Kinds :
           /\ ~lastMerge.inner.inherit[k]
           /\ lastMerge.inner.seq[k] = "absent"
           /\ lastMerge.outer.seq[k] # "absent"
           /\ Merged.seq[k] = "absent"

\* inner has no sequences at all and lets every kind inherit
BlankInner ==
    \A k \in Kinds : lastMerge.inner.seq[k] = "absent" /\ lastMerge.inner.inherit[k]

\* C14: Info::chain(outer, inner) where inner has no sequences and marks
\* every kind inheritable equals outer by observable sequence values: for
\* every kind, have_seq on the result is what it was on outer, and get_seq on
\* the result returns what get_seq returned on outer.
C14_ChainBlankInnerEqualsOuter ==
    (Chained /\ BlankInner) =>
        /\ \A k \in Kinds :
               Info_have_seq(Merged, k) = Info_have_seq(lastMerge.outer, k)
        /\ (/\ lastGet.made
            /\ lastGet.info = lastMerge.result
            /\ lastMerge.outer.got[lastGet.kind] # "never")
               => lastGet.val = lastMerge.outer.got[lastGet.kind]

\* C15: in the result of Info::chain(outer, inner) the name, the quirks and
\* the safe symbol tags each are inner's unless unset in inner, and then
\* outer's.
C15_ChainMetaFollowsInnerUnlessUnset ==
    Chained =>
        /\ lastMerge.res.name = IF lastMerge.inner.name # "unset" THEN lastMerge.inner.name
                                ELSE lastMerge.outer.name
        /\ lastMerge.res.quirks = IF lastMerge.inner.quirks # 0 THEN lastMerge.inner.quirks
                                  ELSE lastMerge.outer.quirks
        /\ lastMerge.res.tags = IF lastMerge.inner.tags # 0 THEN lastMerge.inner.tags
                                ELSE lastMerge.outer.tags

\* a chain in which inner has no name and outer has one
C15_Witness ==
    /\ Chained
    /\ lastMerge.inner.name = "unset"
    /\ lastMerge.outer.name \in Names
    /\ lastMerge.res.name = lastMerge.outer.name

\* C16: Info::supplement(target, source) fills every kind absent in target
\* with source's value, whatever the inheritance flags, and leaves every kind
\* target defines as it was.
C16_SupplementFillsAbsentOnly ==
    Supplemented =>
        \A k \in Kinds :
            Merged.seq[k] = IF lastMerge.outer.seq[k] = "absent"
                            THEN lastMerge.inner.seq[k]
                            ELSE lastMerge.outer.seq[k]

\* a supplement that fills a kind target lacks and does not inherit
C16_Witness ==
    /\ Supplemented
    /\ \E k \in Kinds :
           /\ ~lastMerge.outer.inherit[k]
           /\ lastMerge.outer.seq[k] = "absent"
           /\ lastMerge.inner.seq[k] # "absent"
           /\ Merged.seq[k] = lastMerge.inner.seq[k]

\* the latest set_seq passed a template the native call does not take
Rejectable ==
    /\ lastSet.made
    /\ lastSet.template \in TemplateIds
    /\ ~Template[lastSet.template].nul
    /\ ~Accepted(lastSet.kind, lastSet.template)

\* C17: Info::set_seq(kind, Some(template)) returns Err when the template
\* does not parse or can format to more than CHAFA_TERM_SEQ_LENGTH_MAX bytes,
\* and then the stored sequence of the kind is untouched: get_seq(kind)
\* returns the same value as before the call.
C17_SetSeqRejectionLeavesSequence ==
    Rejectable =>
        /\ lastSet.outcome = "err"
        /\ ~lastGet.made => infoObj[lastSet.info] = lastSet.before
        /\ (/\ lastGet.made
            /\ lastGet.info = lastSet.info
            /\ lastGet.kind = lastSet.kind
            /\ lastSet.before.got[lastSet.kind] # "never")
               => lastGet.val = lastSet.before.got[lastSet.kind]

\* C18: Db::detect does not fail because of what the environment holds: on
\* a live database every environment, also one that matches nothing or is
\* garbage, yields a terminal description.
C18_DetectNeverFails ==
    (detected.made /\ detected.live) => detected.ok

\* a detection in an environment that cannot be parsed
C18_Witness ==
    /\ detected.made
    /\ detected.live
    /\ detected.env = "garbage"
    /\ detected.ok

C20_FitsBoxKeepsAspect ==
    (/\ geom.made
     /\ ~geom.stretch
     /\ geom.sw = 100
     /\ geom.sh = 50
     /\ geom.ratio = <<1, 2>>)
        => /\ geom.w <= 40
           /\ geom.h <= 40
           /\ geom.w = 40 \/ geom.h = 40
           /\ ~geom.zoom => (geom.w <= NaturalW(geom.sw) /\ geom.h <= NaturalH(geom.sh, 1, 2))
           /\ <<geom.w, geom.h>> # <<0, 0>>

\* C21: Canvas::set_char_at with a zero-width or non-printable character is
\* rejected: it returns 0 cells affected and the characters and colours of
\* every cell of the grid are what they were before the call.
C21_UnprintableCharRejected ==
    (lastPut.made /\ (~g_unichar_isprint(lastPut.c) \/ g_unichar_iszerowidth(lastPut.c)))
        => /\ lastPut.cells = 0
           /\ cells[lastPut.canvas] = lastPut.before

\* a zero-width character was put on a cell inside a grid that was not blank
C21_Witness ==
    /\ lastPut.made
    /\ lastPut.c = "combining"
    /\ <<lastPut.x, lastPut.y>> \in Pos
    /\ lastPut.before # BlankGrid
    /\ lastPut.cells = 0

\* C22: after a set_char_at(c, x, y) that reported 2 cells, get_char_at(x+1, y)
\* returns code point 0 and the colours of cell (x+1, y), raw and packed, are
\* the colours of cell (x, y), also after later set_colors_at and
\* set_raw_colors_at calls.
C22_WideCharOwnsRightCell ==
    lastWide.made =>
        LET cv == lastWide.canvas
            x == lastWide.x
            y == lastWide.y
        IN  /\ Canvas_get_char_at(cv, x + 1, y) = "nul"
            /\ Canvas_get_raw_colors_at(cv, x + 1, y) = Canvas_get_raw_colors_at(cv, x, y)
            /\ Canvas_get_colors_at(cv, x + 1, y) = Canvas_get_colors_at(cv, x, y)

\* colours were set on the left cell of a wide character after it was put
C22_Witness ==
    /\ lastWide.made
    /\ lastPaint.made
    /\ lastPaint.x = lastWide.x /\ lastPaint.y = lastWide.y
    /\ lastPaint.fg # -1
    /\ cells[lastWide.canvas][<<lastWide.x + 1, lastWide.y>>].fg # -1

\* the colours get_colors_at and get_raw_colors_at return for the cell of the
\* latest colour call
PaintedPacked == Canvas_get_colors_at(lastPaint.canvas, lastPaint.x, lastPaint.y)
PaintedRaw == Canvas_get_raw_colors_at(lastPaint.canvas, lastPaint.x, lastPaint.y)
\* a packed colour that is transparent or the colour of a pen
InPalette(rgb) == rgb = -1 \/ \E p \in Pens : Palette[p] = rgb

\* C23 as the specification states it: set_colors_at(x, y, fg, bg) followed
\* at once by get_colors_at(x, y) returns (fg, bg) for all packed RGB values
\* and -1, whatever the canvas mode; set_raw_colors_at followed by
\* get_raw_colors_at returns the same pair for pens and -1 in an indexed mode.
C23_ColorsRoundTrip ==
    lastPaint.made =>
        IF lastPaint.raw
        THEN CanvasMode(lastPaint.canvas) = Indexed256
                 => PaintedRaw = <<lastPaint.fg, lastPaint.bg>>
        ELSE PaintedPacked = <<lastPaint.fg, lastPaint.bg>>

\* C23: set_colors_at(x, y, fg, bg) followed at once by get_colors_at(x, y)
\* returns (fg, bg) in truecolor mode for all packed RGB values and -1, and in
\* an indexed mode when fg and bg are colours of the palette or -1;
\* set_raw_colors_at followed by get_raw_colors_at returns the same pair for
\* pens and -1 in an indexed mode.
C23_ColorsRoundTripInPalette ==
    lastPaint.made =>
        IF lastPaint.raw
        THEN CanvasMode(lastPaint.canvas) = Indexed256
                 => PaintedRaw = <<lastPaint.fg, lastPaint.bg>>
        ELSE (\/ CanvasMode(lastPaint.canvas) = TrueColor
              \/ InPalette(lastPaint.fg) /\ InPalette(lastPaint.bg))
                 => PaintedPacked = <<lastPaint.fg, lastPaint.bg>>

\* a colour that is no pen's was set and read back in truecolor mode
C23_Witness ==
    /\ lastPaint.made
    /\ ~lastPaint.raw
    /\ CanvasMode(lastPaint.canvas) = TrueColor
    /\ ~InPalette(lastPaint.fg)
    /\ lastPaint.bg # -1
    /\ PaintedPacked = <<lastPaint.fg, lastPaint.bg>>

\* the number of lines of a text that end in a newline
RECURSIVE Newlines(_)
Newlines(text) ==
    IF text = <<>> THEN 0
    ELSE (IF Head(text) = Newline THEN 1 ELSE 0) + Newlines(Tail(text))

\* C24: Canvas::create_string is a pure function of the canvas state: the call
\* leaves the cell grid and the configuration as they were, every line of its
\* output but the last ends in a newline, and two consecutive calls on an
\* unmodified canvas with the same TermInfo return the same text.
C24_CreateStringIsPure ==
    (lastStr.made /\ lastStr.op = "create_string") =>
        /\ cells[lastStr.canvas] = lastStr.before
        /\ cfgObj[canvasObj[lastStr.canvas].cfg].val = lastStr.config
        /\ Newlines(lastStr.out) = MaxY
        /\ lastStr.out # <<>>
        /\ lastStr.out[Len(lastStr.out)] # Newline
        /\ (/\ prevStr.made
            /\ prevStr.op = "create_string"
            /\ prevStr.canvas = lastStr.canvas
            /\ prevStr.term = lastStr.term)
               => lastStr.out = prevStr.out

\* C25: no operation panics: a name or a sequence template with a NUL byte
\* and a sequence number outside the enumeration are answered by an outcome
\* the caller can handle.
C25_NoCallPanics == ~panicked

\* C26: the default database is constructed once however the threads that
\* call Db::default interleave, every thread that holds a Db made by
\* Db::default holds the one live instance, and the instance is not changed
\* after its construction.
C26_DefaultDbConstructedOnce ==
    /\ ncreated <= 1
    /\ \A t \in Threads : pc[t] \in {"wrap", "held"} => ncreated = 1
    /\ \A t \in Threads : pc[t] = "held" => Live(dbObj[DefaultDb])
    /\ ncreated = 1 => dbObj[DefaultDb] = [acq |-> 1, rel |-> 0]

\* the latest add_glyph call passed a glyph whose fields do not agree
Inconsistent ==
    /\ lastGlyph.made
    /\ \/ lastGlyph.glyph.len # lastGlyph.glyph.height * lastGlyph.glyph.rowstride
       \/ lastGlyph.glyph.rowstride
              < lastGlyph.glyph.width * BytesPerPixel[lastGlyph.pixel_format]

\* C27: SymbolMap::add_glyph rejects a glyph whose len is not height *
\* rowstride or whose rowstride is too small for its width: the glyph is not
\* stored and no byte outside its buffer is read.
C27_AddGlyphValidates ==
    Inconsistent =>
        /\ glyphOf = lastGlyph.before
        /\ ~lastGlyph.overread

\* C28: Info::get_seq is a pure read: it frees no string the description
\* holds, and after the call the description holds the value the call
\* returned, so that have_seq and a further get_seq give the same result.
C28_GetSeqIsPureRead ==
    /\ \A t \in InfoIds, k \in Kinds : ~infoObj[t].freed[k]
    /\ lastGet.made =>
           /\ infoObj[lastGet.info].seq[lastGet.kind] = lastGet.val
           /\ Info_have_seq(infoObj[lastGet.info], lastGet.kind) = (lastGet.val # "absent")

\* C29: Canvas::create_string and Canvas::create_string_rows copy the bytes
\* of every native string while it is allocated, and free it once.
C29_StringCopiedBeforeFree ==
    lastStr.made => (~lastStr.after_free /\ lastStr.frees = 1)

\* C30: the outcome of SymbolMap::apply_selectors is that of the expression in
\* its argument and of nothing after it: Ok or Err as the expression parses,
\* and the map the expression alone makes of the map before the call.
C30_ApplySelectorsReadsArgumentOnly ==
    lastCall.made =>
        /\ lastCall.ok = Parsed(lastCall.expr).ok
        /\ symObj.sels = ApplySelectors(lastCall.before, lastCall.expr).sels

====
